---- MODULE Spec2Model ----
(***************************************************************************)
(* Model of the photohaven-selfbooth orchestration engine:                 *)
(*   folder_watcher.py, processing_counter.py,                             *)
(*   lightroom_destination_watcher.py, cleanup_old_images.py.              *)
(*                                                                         *)
(* Names (folder names, file names) are sequences of one-character         *)
(* strings, so that the round-trip file name is really built and split.    *)
(*                                                                         *)
(* Specifications:                                                         *)
(*   Spec          the whole lifecycle of one session                      *)
(*   SpecAdm       admission control of one watched session                *)
(*   SpecScenario  the threshold-2 scenario, fairly scheduled              *)
(*   SpecWatch     one ChildFolderImageHandler in detail (debounce)        *)
(*   SpecNames     session names and artifact names around the separator   *)
(*   SpecReaper    the lifecycle with a fair clock and reaper              *)
(*   SpecHandoff   admission control with handoffs that fail               *)
(*   SpecCleanup   the retention sweeper (ImageCleanup) on one folder      *)
(*   SpecEscalate  one ParentFolderSubfolderHandler in detail              *)
(*   SpecRoot      the FolderCreatedHandler of the watch root in detail      *)
(*   SpecArrive    one image handler with files that arrive unannounced     *)
(*   SpecDirect    a subfolder watch with images placed beside it           *)
(*   SpecStarve    two sessions, one of them held at the threshold          *)
(*   SpecReturn    the LightroomDestinationHandler in detail                *)
(*   SpecShutdown  start and stop of the three components from main         *)
(*   SpecHandlers  one of the three debounce handlers, whichever            *)
(*   SpecCollect   admission control with returns that fail to move         *)
(*   SpecDrain     admission control at threshold 1 with a fair sink        *)
(*   SpecCounter   the operations of ProcessingCounter on two session ids   *)
(*   SpecLocks     the threads of the folder watcher by their locks         *)
(*   SpecRecreate  the watch root with folders that come back               *)
(*   SpecVanish    a subfolder watch whose child directories may vanish     *)
(***************************************************************************)
EXTENDS Integers, Sequences, FiniteSets, TLC

\* ------------------------------------------------------------------ bounds
MaxThreshold == 2       \* thresholds tried: 1..MaxThreshold
TimeoutTicks == 2       \* folder_timeout_seconds, in reaper-clock ticks
MaxLag == 1             \* ticks the debounce worker may lose between reading the
                        \* clock and taking the handler lock
MaxSweeps == 2
MaxChecks == 2
MaxEvents == 3          \* file events delivered to one image handler
MaxStops == 2           \* stop() calls on one component: main's signal handler
                        \* and its finally block
MaxDelayed == 1         \* _delayed_check threads of the root handler under way
MaxAgeTicks == 1
DebounceTicks == 2      \* processing.debounce_seconds

\* ------------------------------------------------- program constants, names
Separator == <<"_", "_", "_">>
ProcessedSubdir == <<"p">>

Session1 == <<"S", "1">>
Session2 == <<"S", "2">>
\* session folder names that meet the separator: plain, ending in a part of it,
\* containing it
SessA == <<"A">>
SessAU == <<"A", "_">>
SessAB == <<"A", "_", "_", "_", "B">>
NameSessions == {SessA, SessAU, SessAB}
SessionNames == {Session1, Session2} \cup NameSessions
ImgA == <<"a">>
ImgB == <<"b">>
ImgC == <<"c">>
ImageNames == {ImgA, ImgB, ImgC}
\* files that something other than the sink writes into the destination folder
StrayPlain == <<"x">>
StrayTwice == <<"A", "_", "_", "_", "x", "_", "_", "_", "y">>
StrayNames == {StrayPlain, StrayTwice}

\* directory entries of the watched image folder: two image files, a link to the
\* first one and a file that is no image
EntA == <<"a">>
EntB == <<"b">>
EntLink == <<"l">>
EntText == <<"n">>
Entries == {EntA, EntB, EntLink, EntText}
\* Path.resolve(): a link resolves to its target, any other entry to itself
Resolve(e) == IF e = EntLink THEN EntA ELSE e
\* _is_image_file: the suffix is one of the supported extensions
IsImageFile(e) == e # EntText
Paths == {Resolve(e) : e \in Entries}

\* one dispatch worker and the pending processor are two concurrent drainers
Workers == {"w1"}
PendingProcessor == "pp"
Drainers == Workers \cup {PendingProcessor}

None == <<>>

\* ------------------------------------------------------------ pure helpers
\* does sep occur in name at position i
OccursAt(name, sep, i) ==
    /\ i >= 1
    /\ i + Len(sep) - 1 <= Len(name)
    /\ \A k \in 1..Len(sep) : name[i + k - 1] = sep[k]

\* Python: sep in name
Contains(name, sep) == \E i \in 1..Len(name) : OccursAt(name, sep, i)

\* Python: name.find(sep) + 1 (leftmost occurrence), for a name that has one
FirstIndex(name, sep) ==
    CHOOSE i \in 1..Len(name) :
        /\ OccursAt(name, sep, i)
        /\ \A j \in 1..(i - 1) : ~OccursAt(name, sep, j)

\* Python: name.split(sep, 1)
SplitOnce(name, sep) ==
    IF ~Contains(name, sep) THEN <<name>>
    ELSE LET i == FirstIndex(name, sep)
         IN  <<SubSeq(name, 1, i - 1), SubSeq(name, i + Len(sep), Len(name))>>

\* f"{folder_name}{separator}{image_file.name}"
NewName(folder_name, image_name) == folder_name \o Separator \o image_name

\* a partial map as a function: set / remove one key
MapSet(m, k, v) == [x \in (DOMAIN m) \cup {k} |-> IF x = k THEN v ELSE m[x]]
MapDel(m, k) == [x \in (DOMAIN m) \ {k} |-> m[x]]
EmptyMap == [x \in {} |-> 0]

\* the child directories that may appear in the session folder of Session1
ChildC1 == <<"c", "1">>
ChildC2 == <<"c", "2">>
ChildDirs == {ChildC1, ChildC2}

\* the tree below one folder that ImageCleanup sweeps: paths relative to the
\* folder, as sequences of parts; d and d/e are directories, the rest files
NodeD == <<"d">>
NodeE == <<"d", "e">>
NodeF == <<"d", "e", "f">>
NodeH == <<"d", "h">>
NodeG == <<"g">>
Nodes == {NodeD, NodeE, NodeF, NodeH, NodeG}
IsDir(n) == n \in {NodeD, NodeE}
IsAncestor(a, n) == Len(a) < Len(n) /\ SubSeq(n, 1, Len(a)) = a
Below(n) == {x \in Nodes : IsAncestor(n, x)}
\* the trees that can exist: every node lies in directories that exist
Trees == {T \in SUBSET Nodes : \A n \in T : \A a \in Nodes : IsAncestor(a, n) => a \in T}

\* ------------------------------------------------------------------ state
VARIABLES
    threshold,        \* ProcessingCounter.threshold
    counters,         \* ProcessingCounter.counters: folder_name -> int
    pending_queues,   \* ProcessingCounter.pending_queues: folder_name -> deque
    running,          \* FolderWatcher.running
    watched_folders,  \* FolderWatcher.watched_folders, in insertion order:
                      \*   <<[path, kind, age]>>, kind "sub" (ParentFolderSubfolderHandler)
                      \*   or "img" (ChildFolderImageHandler); age = now - created_time,
                      \*   saturating at TimeoutTicks
    observers,        \* every Observer made for a session: <<s, kind>> -> state
    child_folder_found, \* ParentFolderSubfolderHandler of s: "none" | "no" | "yes"
    processed_files,  \* ChildFolderImageHandler.processed_files of session s
    started,          \* parent folders taken from folder_queue
    folderOnDisk,     \* session folders that exist under the watch root
    childOnDisk,      \* session folders that have a first subfolder
    inputFiles,       \* <<s, f>>: image f lies in the subfolder of session s
    image_queue,      \* FolderWatcher.image_queue
    pc, item, ret, dnames, dcur,  \* the dispatch workers and the pending processor
    sinkFiles,        \* lightroom_watched_folder: names handed to the sink
    destFiles,        \* lightroom destination folder
    processor_queue,  \* LightroomDestinationWatcher.processor_queue
    outputFiles,      \* paths below output_base_folder
    cpc, cfile, cfolder,          \* the collector worker (_process_file)
    rpc, rlist, rcur, robs,       \* the reaper (_folder_management_worker)
    dispatchLog,      \* history: items in the order they were handed to the sink
    pendLog,          \* history: per folder, items in the order of add_pending
    failLog,          \* history: the _process_image calls that returned early or
                      \*   raised, in order: <<[name, img, why]>>
    lateReturns,      \* history: <<filename, r>> for every artifact _process_file
                      \*   moved after its session was torn down; r is <<>>, then
                      \*   <<v>>, v the value decrement returned for the unknown id
    lostItems,        \* history: items in the pending queue that remove_folder deleted
    \* one ChildFolderImageHandler in detail (the image watch of Session1)
    dirEntries,       \* entries of the watched image folder
    hstate,           \* "none": not followed; "new": not built; "watching": built, its observer runs
    pending_files,    \* ChildFolderImageHandler.pending_files, in insertion order:
                      \*   <<[path, age]>>, age = now - timestamp, saturating
    dpc,              \* _debounce_worker: "sleep" | "lock" (current_time was read)
    dlag,             \* now - current_time of the debounce worker
    eventCount,       \* history: path -> number of events delivered for it
    listed,           \* history: paths listed by _initialize_existing_files
    putCount,         \* history: path -> number of image_queue.put
    emitCount,        \* history: path -> number of puts by _debounce_worker
    emitAge,          \* history: path -> now - timestamp at its last emission
    \* one ParentFolderSubfolderHandler in detail (the subfolder watch of Session1)
    children,         \* the child directories of the session folder, in the order
                      \*   they were created
    evq,              \* directory events the observer has not delivered yet:
                      \*   <<[kind, dir]>>, kind "created" | "moved"
    estage,           \* _start_watching_folder: "none" | "handler" (handler built,
                      \*   check thread started) | "observing" | "registered"
    epc, ecur,        \* the observer thread in on_created / on_moved
    ppc, checks, pfirst,  \* the thread of _periodic_check
    escalations,      \* history: the child directories that were passed to
                      \*   _watch_child_folder_for_images, in order
    delivered,        \* history: the directories whose events reached a callback
    \* ImageCleanup (cleanup_old_images.py) and one configured folder
    onDisk,           \* the descendants of the folder that exist
    mtimeAge,         \* node -> now - st_mtime, in ticks, saturating
    enabled,          \* ImageCleanup.enabled
    folders,          \* ImageCleanup.folders (the configured folders)
    crunning,         \* ImageCleanup.running
    stop_event,       \* ImageCleanup.stop_event is set
    wpc,              \* where the thread of _cleanup_worker is
    items_to_delete,  \* _cleanup_folder: what is left of the sorted list
    sweeps,           \* history: number of _run_cleanup calls started
    intervals,        \* history: number of waits that timed out
    sweepDisk,        \* history: onDisk when the current sweep collected
    sweepAge,         \* history: mtimeAge when the current sweep collected
    doneLog,          \* history: the items the current sweep processed, in order:
                      \*   <<[node, did]>>, did "deleted" | "skipped"
    disturbed,        \* history: nodes removed by others during the current sweep
    \* FolderCreatedHandler (the handler of the watch root) in detail
    rootDisk,         \* the entries of the watch root that exist
    fstate,           \* "none" | "new": not built | "built": handler built, its
                      \*   threads run | "watching": main observer started |
                      \*   "stopped": main observer stopped
    existing_folders, \* history: the child folders of the root (resolved) that
                      \*   existed when the handler was built
    processed_folders, \* FolderCreatedHandler.processed_folders
    pending_folders,  \* FolderCreatedHandler.pending_folders, in insertion order:
                      \*   <<[path, age, quiet]>>, age = now - timestamp,
                      \*   saturating; quiet (history) = now - time of the last
                      \*   event for the path
    folder_queue,     \* FolderWatcher.folder_queue: every path put so far, in order
    fdpc,             \* _debounce_worker of the root handler: "none" | "sleep" | "lock"
    fdlag,            \* now - current_time of that worker
    fppc,             \* _periodic_check of the root handler: "none" | "sleep"
    delayed,          \* number of _delayed_check threads that have not checked yet
    \* LightroomDestinationHandler (the handler of the return folder) in detail
    lstate,           \* "none" | "new" | "built" | "watching" | "stopped"
    dest_processed,   \* LightroomDestinationHandler.processed_files
    dest_pending,     \* LightroomDestinationHandler.pending_files: <<[path, age]>>
    ldpc,             \* its _debounce_worker: "none" | "sleep" | "lock"
    ldlag,            \* now - current_time of that worker
    \* files placed directly in the session folder of Session1
    directFiles,
    \* main.py: the stop() calls made so far on each of the three components
    stopCalls,
    \* the threads of the folder watcher seen by their locks and joins only
    lockHeld,         \* lock -> the thread that holds it, or "free"
    lpc,              \* thread -> the step of its code it is at; 0: not running
    lstopped,         \* the threads whose observer was told to stop
    recreated         \* history: the folders of the watch root that were created
                      \*   again under a name that is on the folder queue

admVars == <<threshold, counters, pending_queues>>
regVars == <<running, watched_folders, observers, child_folder_found,
             processed_files, started>>
diskVars == <<folderOnDisk, childOnDisk, inputFiles>>
thrVars == <<pc, item, ret, dnames, dcur>>
sinkVars == <<sinkFiles, destFiles, processor_queue, outputFiles>>
colVars == <<cpc, cfile, cfolder>>
reapVars == <<rpc, rlist, rcur, robs>>
histVars == <<dispatchLog, pendLog, failLog, lateReturns, lostItems>>
imgVars == <<dirEntries, hstate, pending_files, dpc, dlag, eventCount,
             listed, putCount, emitCount, emitAge>>
escVars == <<children, evq, estage, epc, ecur, ppc, checks, pfirst, escalations,
             delivered>>
cleanVars == <<onDisk, mtimeAge, enabled, folders, crunning, stop_event, wpc,
               items_to_delete, sweeps, intervals, sweepDisk, sweepAge, doneLog,
               disturbed>>
rootVars == <<rootDisk, fstate, existing_folders, processed_folders,
              pending_folders, folder_queue, fdpc, fdlag, fppc, delayed>>
retVars == <<lstate, dest_processed, dest_pending, ldpc, ldlag>>
lockVars == <<lockHeld, lpc, lstopped>>
newVars == <<rootVars, retVars, directFiles, stopCalls, lockVars, recreated>>
handlerVars == <<imgVars, escVars, cleanVars, newVars>>
mainVars == <<admVars, regVars, diskVars, image_queue, thrVars, sinkVars,
              colVars, reapVars, histVars>>
vars == <<mainVars, handlerVars>>

ObserverIds == SessionNames \X {"sub", "img"}
NoItem == [name |-> None, img |-> None]

\* -------------------------------------------------- ProcessingCounter
\* counter value with "not in self.counters" read as 0 (get_count)
get_count(c, folder_name) == IF folder_name \in DOMAIN c THEN c[folder_name] ELSE 0

\* the counters after can_process: the entry is created lazily
can_process_counters(c, folder_name) ==
    IF folder_name \in DOMAIN c THEN c ELSE MapSet(c, folder_name, 0)

\* an admission test that still admits at the threshold
can_process_at_threshold(c, folder_name) == get_count(c, folder_name) <= threshold
\* the value can_process returns
can_process(c, folder_name) == get_count(c, folder_name) < threshold

\* the counters after increment
increment(c, folder_name) == MapSet(c, folder_name, get_count(c, folder_name) + 1)

\* a decrement that subtracts whatever the entry holds, a missing entry read as 0
decrement_unchecked(c, folder_name) ==
    MapSet(c, folder_name, get_count(c, folder_name) - 1)
\* a decrement that knows the folder but not the floor at 0
decrement_no_floor(c, folder_name) ==
    IF folder_name \notin DOMAIN c THEN c
    ELSE MapSet(c, folder_name, c[folder_name] - 1)

\* the counters after decrement
decrement(c, folder_name) ==
    IF folder_name \notin DOMAIN c THEN c
    ELSE IF c[folder_name] > 0 THEN MapSet(c, folder_name, c[folder_name] - 1)
    ELSE c

\* the value decrement returns
decrement_result(c, folder_name) == get_count(decrement(c, folder_name), folder_name)

\* the pending queues after add_pending
add_pending(q, folder_name, it) ==
    MapSet(q, folder_name,
           (IF folder_name \in DOMAIN q THEN q[folder_name] ELSE <<>>) \o <<it>>)

has_pending(q, folder_name) == folder_name \in DOMAIN q /\ Len(q[folder_name]) > 0

\* get_pending: the item returned (NoItem for None) and the queues afterwards
get_pending_item(q, folder_name) ==
    IF has_pending(q, folder_name) THEN Head(q[folder_name]) ELSE NoItem

get_pending_queues(q, folder_name) ==
    IF has_pending(q, folder_name)
    THEN MapSet(q, folder_name, Tail(q[folder_name]))
    ELSE q

\* ------------------------------------------------------------- registry
RegPaths == {watched_folders[i].path : i \in 1..Len(watched_folders)}
InReg(s) == s \in RegPaths
RegIndex(s) == CHOOSE i \in 1..Len(watched_folders) : watched_folders[i].path = s
RegEntry(s) == watched_folders[RegIndex(s)]

\* self.watched_folders[path] = (observer, handler, created_time): a new key goes
\* to the end, an existing key keeps its place
RegPut(reg, e) ==
    IF \E i \in 1..Len(reg) : reg[i].path = e.path
    THEN [i \in 1..Len(reg) |-> IF reg[i].path = e.path THEN e ELSE reg[i]]
    ELSE Append(reg, e)

\* del self.watched_folders[path]
RegDel(reg, s) ==
    LET keep == {i \in 1..Len(reg) : reg[i].path # s}
        F[i \in 0..Len(reg)] ==
            IF i = 0 THEN <<>>
            ELSE IF i \in keep THEN Append(F[i - 1], reg[i]) ELSE F[i - 1]
    IN  F[Len(reg)]

\* [Path(f).name for f in self.watched_folders.keys()]
RegNames(reg) == [i \in 1..Len(reg) |-> reg[i].path]

\* the subfolder handler that the detailed runs follow is not built
EscIdle ==
    /\ children = <<>>
    /\ evq = <<>>
    /\ estage = "none"
    /\ epc = "idle"
    /\ ecur = None
    /\ ppc = "none"
    /\ checks = 0
    /\ pfirst = None
    /\ escalations = <<>>
    /\ delivered = <<>>

\* ImageCleanup is not configured and not started
CleanIdle ==
    /\ onDisk = {}
    /\ mtimeAge = [n \in Nodes |-> 0]
    /\ enabled = FALSE
    /\ folders = <<>>
    /\ crunning = FALSE
    /\ stop_event = FALSE
    /\ wpc = "none"
    /\ items_to_delete = <<>>
    /\ sweeps = 0
    /\ intervals = 0
    /\ sweepDisk = {}
    /\ sweepAge = [n \in Nodes |-> 0]
    /\ doneLog = <<>>
    /\ disturbed = {}

\* the image handler that the detailed runs follow is not built
ImgIdle ==
    /\ dirEntries = {}
    /\ hstate = "none"
    /\ pending_files = <<>>
    /\ dpc = "sleep"
    /\ dlag = 0
    /\ eventCount = [p \in Paths |-> 0]
    /\ listed = {}
    /\ putCount = [p \in Paths |-> 0]
    /\ emitCount = [p \in Paths |-> 0]
    /\ emitAge = [p \in Paths |-> 0]

\* the components that main starts and stops
Components == {"folder", "return", "cleanup"}

\* the handler of the watch root is not followed in detail
RootIdle ==
    /\ rootDisk = {}
    /\ fstate = "none"
    /\ existing_folders = {}
    /\ processed_folders = {}
    /\ pending_folders = <<>>
    /\ folder_queue = <<>>
    /\ fdpc = "none"
    /\ fdlag = 0
    /\ fppc = "none"
    /\ delayed = 0

\* the handler of the return folder is not followed in detail
RetIdle ==
    /\ lstate = "none"
    /\ dest_processed = {}
    /\ dest_pending = <<>>
    /\ ldpc = "none"
    /\ ldlag = 0

\* the locks of the folder watcher and the threads that take them
LockNames == {"sub", "img", "root", "watched", "counter"}
LockThreads == {"callback", "periodic", "imgdeb", "rootcb", "worker", "reaper",
                "collector", "stop"}

\* no thread is followed by its locks
LocksIdle ==
    /\ lockHeld = [l \in LockNames |-> "free"]
    /\ lpc = [t \in LockThreads |-> 0]
    /\ lstopped = {}

\* neither of them is, and no file lies directly in a session folder
NewIdle ==
    /\ RootIdle
    /\ RetIdle
    /\ directFiles = {}
    /\ stopCalls = [c \in Components |-> 0]
    /\ LocksIdle
    /\ recreated = {}

\* none of the parts modelled in detail is active
HandlerIdle == ImgIdle /\ EscIdle /\ CleanIdle /\ NewIdle

\* nothing was pasted, queued, dispatched or returned yet
MainIdle ==
    /\ counters = EmptyMap
    /\ pending_queues = EmptyMap
    /\ running = TRUE
    /\ watched_folders = <<>>
    /\ observers = [o \in ObserverIds |-> "none"]
    /\ child_folder_found = [s \in SessionNames |-> "none"]
    /\ processed_files = [s \in SessionNames |-> {}]
    /\ started = {}
    /\ folderOnDisk = {}
    /\ childOnDisk = {}
    /\ inputFiles = {}
    /\ image_queue = <<>>
    /\ pc = [t \in Drainers |-> "idle"]
    /\ item = [t \in Drainers |-> NoItem]
    /\ ret = [t \in Drainers |-> "main"]
    /\ dnames = [t \in Drainers |-> <<>>]
    /\ dcur = [t \in Drainers |-> None]
    /\ sinkFiles = {}
    /\ destFiles = {}
    /\ processor_queue = <<>>
    /\ outputFiles = {}
    /\ cpc = "idle"
    /\ cfile = None
    /\ cfolder = None
    /\ rpc = "sleep"
    /\ rlist = <<>>
    /\ rcur = None
    /\ robs = "none"
    /\ dispatchLog = <<>>
    /\ pendLog = [s \in SessionNames |-> <<>>]
    /\ failLog = <<>>
    /\ lateReturns = {}
    /\ lostItems = {}

Init ==
    /\ HandlerIdle
    /\ threshold \in 1..MaxThreshold
    /\ MainIdle

\* all orders in which iterdir() may list the set S
RECURSIVE Orders(_)
Orders(S) ==
    IF S = {} THEN {<<>>}
    ELSE UNION {{<<x>> \o o : o \in Orders(S \ {x})} : x \in S}

\* a handler that takes the name of the directory it watches
child_folder_name_kept(parent_folder_name, child_folder_name) == child_folder_name
\* ChildFolderImageHandler(str(child_folder_path), parent_folder_name, ...): the
\* folder_name of the handler that watches the directory child_folder_name
handler_folder_name(parent_folder_name, child_folder_name) == parent_folder_name

\* the tuples (self.folder_path, self.folder_name, file_path) that the image
\* handler of the session s puts on image_queue, as folder_name and file
QueueItems(s, order) ==
    [i \in 1..Len(order) |->
        [name |-> handler_folder_name(s, ChildC1), img |-> order[i]]]

\* ------------------------------------------------ the file system (input)
\* a new session folder is pasted under the watch root, with or without a subfolder
CreateFolder(s) ==
    /\ s \notin folderOnDisk
    /\ s \notin started
    /\ folderOnDisk' = folderOnDisk \cup {s}
    /\ \E withChild \in BOOLEAN :
          childOnDisk' = IF withChild THEN childOnDisk \cup {s} ELSE childOnDisk
    /\ UNCHANGED <<handlerVars, admVars, regVars, inputFiles, image_queue,
                   thrVars, sinkVars, colVars, reapVars, histVars>>

\* the first subfolder of a session folder is created
CreateChild(s) ==
    /\ s \in folderOnDisk
    /\ s \notin childOnDisk
    /\ childOnDisk' = childOnDisk \cup {s}
    /\ UNCHANGED <<handlerVars, admVars, regVars, folderOnDisk, inputFiles,
                   image_queue, thrVars, sinkVars, colVars, reapVars,
                   histVars>>

\* the order in which the image files of a session are dropped (the names are
\* interchangeable, so fixing the order of arrival loses no behaviour)
ImageOrder == <<ImgA, ImgB, ImgC>>
ImageIndex(f) == CHOOSE i \in 1..Len(ImageOrder) : ImageOrder[i] = f
Arrived(s, f) == <<s, f>> \in inputFiles \/ f \in processed_files[s]

\* an image file is dropped into the subfolder of a session
DropImage(s, f) ==
    /\ s \in childOnDisk
    /\ ~Arrived(s, f)
    /\ \A j \in 1..(ImageIndex(f) - 1) : Arrived(s, ImageOrder[j])
    /\ inputFiles' = inputFiles \cup {<<s, f>>}
    /\ UNCHANGED <<handlerVars, admVars, regVars, folderOnDisk, childOnDisk,
                   image_queue, thrVars, sinkVars, colVars, reapVars,
                   histVars>>

\* ------------------------------------------------------ session registry
\* _watch_child_folder_for_images: stop the old observer of the parent, build the
\* ChildFolderImageHandler (whose constructor queues the files already there),
\* start its observer and register it under the parent path
WatchChildFolderForImages(s) ==
    IF s \notin childOnDisk
    THEN UNCHANGED <<observers, processed_files, image_queue, watched_folders>>
    ELSE \E order \in Orders({f \in ImageNames : <<s, f>> \in inputFiles}) :
            /\ observers' =
                 [o \in ObserverIds |->
                    IF o = <<s, "img">> THEN "started"
                    ELSE IF InReg(s) /\ o = <<s, RegEntry(s).kind>> THEN "stopped"
                    ELSE observers[o]]
            /\ processed_files' =
                 [processed_files EXCEPT ![s] = {order[i] : i \in 1..Len(order)}]
            /\ image_queue' = image_queue \o QueueItems(s, order)
            /\ watched_folders' =
                 RegPut(watched_folders, [path |-> s, kind |-> "img", age |-> 0])

\* _folder_watching_worker / _start_watching_folder for a folder from folder_queue
StartWatchingFolder(s) ==
    /\ running
    /\ s \in folderOnDisk
    /\ s \notin started
    /\ started' = started \cup {s}
    /\ IF s \in childOnDisk
       THEN /\ WatchChildFolderForImages(s)
            /\ UNCHANGED child_folder_found
       ELSE /\ observers' = [observers EXCEPT ![<<s, "sub">>] = "started"]
            /\ child_folder_found' = [child_folder_found EXCEPT ![s] = "no"]
            /\ watched_folders' =
                 RegPut(watched_folders, [path |-> s, kind |-> "sub", age |-> 0])
            /\ UNCHANGED <<processed_files, image_queue>>
    /\ UNCHANGED <<handlerVars, admVars, running, diskVars, thrVars, sinkVars,
                   colVars, reapVars, histVars>>

\* ParentFolderSubfolderHandler.on_created / on_moved / _periodic_check: the first
\* subfolder is seen, the session escalates to an image watch
SubfolderFound(s) ==
    /\ child_folder_found[s] = "no"
    /\ s \in folderOnDisk
    /\ s \in childOnDisk
    /\ child_folder_found' = [child_folder_found EXCEPT ![s] = "yes"]
    /\ WatchChildFolderForImages(s)
    /\ UNCHANGED <<handlerVars, admVars, running, started, diskVars, thrVars,
                   sinkVars, colVars, reapVars, histVars>>

\* ChildFolderImageHandler.on_created / on_moved followed by _debounce_worker: a
\* file not yet in processed_files is marked processed and put on image_queue
ImageEmit(s, f) ==
    /\ observers[<<s, "img">>] = "started"
    /\ <<s, f>> \in inputFiles
    /\ f \notin processed_files[s]
    /\ processed_files' = [processed_files EXCEPT ![s] = @ \cup {f}]
    /\ image_queue' = image_queue \o QueueItems(s, <<f>>)
    /\ UNCHANGED <<handlerVars, admVars, running, watched_folders, observers,
                   child_folder_found, started, diskVars, thrVars, sinkVars,
                   colVars, reapVars, histVars>>

\* ------------------------------------- one image handler in detail
\* (ChildFolderImageHandler of the image watch of Session1)
PendingPaths == {pending_files[i].path : i \in 1..Len(pending_files)}

\* the number of events delivered to the handler so far
RECURSIVE SumOver(_, _)
SumOver(f, S) ==
    IF S = {} THEN 0
    ELSE LET x == CHOOSE y \in S : TRUE IN f[x] + SumOver(f, S \ {x})
EventsSeen == SumOver(eventCount, Paths)
\* the paths that had an image event
Evented == {p \in Paths : IsImageFile(p) /\ eventCount[p] > 0}

\* number of places of the sequence q that hold x
Occurrences(q, x) == Cardinality({i \in 1..Len(q) : q[i] = x})

\* __init__ / _initialize_existing_files, then observer.schedule and start: the
\* image files that iterdir() lists are resolved, marked processed and queued
InitializeExistingFiles ==
    /\ hstate = "new"
    /\ hstate' = "watching"
    /\ \E order \in Orders({e \in dirEntries : IsImageFile(e)}) :
          LET existing_files == [i \in 1..Len(order) |-> Resolve(order[i])]
          IN  /\ processed_files' =
                   [processed_files EXCEPT ![Session1] =
                       {existing_files[i] : i \in 1..Len(existing_files)}]
              /\ image_queue' = image_queue \o QueueItems(Session1, existing_files)
              /\ listed' = {existing_files[i] : i \in 1..Len(existing_files)}
              /\ putCount' = [p \in Paths |->
                                 putCount[p] + Occurrences(existing_files, p)]
    /\ UNCHANGED <<admVars, running, watched_folders, observers,
                   child_folder_found, started, diskVars, thrVars, sinkVars,
                   colVars, reapVars, histVars, escVars, cleanVars, newVars,
                   dirEntries, pending_files, dpc,
                   dlag, eventCount, emitCount, emitAge>>

\* the body that on_created and on_moved share: an image file is stamped with the
\* time of the event unless its resolved path is in processed_files
StampPending(e) ==
    /\ hstate = "watching"
    /\ EventsSeen < MaxEvents
    /\ eventCount' = [eventCount EXCEPT ![Resolve(e)] = @ + 1]
    /\ pending_files' =
         IF IsImageFile(Resolve(e)) /\ Resolve(e) \notin processed_files[Session1]
         THEN RegPut(pending_files, [path |-> Resolve(e), age |-> 0])
         ELSE pending_files
    /\ UNCHANGED <<admVars, regVars, diskVars, image_queue, thrVars, sinkVars,
                   colVars, reapVars, histVars, escVars, cleanVars, newVars,
                   dirEntries, hstate, dpc, dlag,
                   listed, putCount, emitCount, emitAge>>

\* ChildFolderImageHandler.on_created
OnCreated(e) == StampPending(e)

\* ChildFolderImageHandler.on_moved (the destination path of the move)
OnMoved(e) == StampPending(e)

\* time passes: every time.time() - timestamp grows by one tick
ClockTick ==
    /\ dpc = "lock" => dlag < MaxLag
    /\ pending_files' =
         [i \in 1..Len(pending_files) |->
            [pending_files[i] EXCEPT
               !.age = IF @ < DebounceTicks + MaxLag THEN @ + 1 ELSE @]]
    /\ dlag' = IF dpc = "lock" THEN dlag + 1 ELSE dlag
    /\ UNCHANGED <<admVars, regVars, diskVars, image_queue, thrVars, sinkVars,
                   colVars, reapVars, histVars, escVars, cleanVars, newVars,
                   dirEntries, hstate, dpc,
                   eventCount, listed, putCount, emitCount, emitAge>>

\* _debounce_worker: current_time = time.time(), read before the lock is taken
DebounceRead ==
    /\ hstate = "watching"
    /\ dpc = "sleep"
    /\ dpc' = "lock"
    /\ dlag' = 0
    /\ UNCHANGED <<admVars, regVars, diskVars, image_queue, thrVars, sinkVars,
                   colVars, reapVars, histVars, escVars, cleanVars, newVars,
                   dirEntries, hstate,
                   pending_files, eventCount, listed, putCount, emitCount,
                   emitAge>>

\* current_time - timestamp >= self.debounce_seconds, with current_time = now - lag
DebounceReadyAlways(age, lag) == TRUE
DebounceReady(age, lag) == age - lag >= DebounceTicks

\* _debounce_worker, under the lock and after it: the ready paths leave
\* pending_files; those not in processed_files are marked and put on image_queue
DebounceSweep ==
    /\ dpc = "lock"
    /\ dpc' = "sleep"
    /\ dlag' = 0
    /\ LET IsReady(e) == DebounceReady(e.age, dlag)
           NotReady(e) == ~DebounceReady(e.age, dlag)
           IsNew(e) == e.path \notin processed_files[Session1]
           ready == SelectSeq(pending_files, IsReady)
           to_process == SelectSeq(ready, IsNew)
           files_to_process == [i \in 1..Len(to_process) |-> to_process[i].path]
           emitted == {files_to_process[i] : i \in 1..Len(files_to_process)}
           AgeOf(p) == (CHOOSE e \in {to_process[i] : i \in 1..Len(to_process)} :
                           e.path = p).age
       IN  /\ pending_files' = SelectSeq(pending_files, NotReady)
           /\ processed_files' =
                [processed_files EXCEPT ![Session1] = @ \cup emitted]
           /\ image_queue' = image_queue \o QueueItems(Session1, files_to_process)
           /\ putCount' = [p \in Paths |->
                             IF p \in emitted THEN putCount[p] + 1 ELSE putCount[p]]
           /\ emitCount' = [p \in Paths |->
                              IF p \in emitted THEN emitCount[p] + 1 ELSE emitCount[p]]
           /\ emitAge' = [p \in Paths |->
                            IF p \in emitted THEN AgeOf(p) ELSE emitAge[p]]
    /\ UNCHANGED <<admVars, running, watched_folders, observers,
                   child_folder_found, started, diskVars, thrVars, sinkVars,
                   colVars, reapVars, histVars, escVars, cleanVars, newVars,
                   dirEntries, hstate, eventCount,
                   listed>>

\* ------------------------------------------------------ dispatch workers
\* where a drainer goes when the while loop over one folder ends: the next folder
\* of its snapshot, or back to its main loop
NextFolder(t) ==
    IF dnames[t] = <<>>
    THEN /\ pc' = [pc EXCEPT ![t] = "idle"]
         /\ dcur' = [dcur EXCEPT ![t] = None]
         /\ UNCHANGED dnames
    ELSE /\ pc' = [pc EXCEPT ![t] = "d_can"]
         /\ dcur' = [dcur EXCEPT ![t] = Head(dnames[t])]
         /\ dnames' = [dnames EXCEPT ![t] = Tail(dnames[t])]

\* where _process_image returns to
AfterProcess(t) ==
    IF ret[t] = "drain"
    THEN pc' = [pc EXCEPT ![t] = "d_can"]
    ELSE pc' = [pc EXCEPT ![t] = "names"]

\* a failed call that goes on to processing_counter.increment all the same
AfterFailureCounts(t) == pc' = [pc EXCEPT ![t] = "inc"]
\* _process_image after logger.warning / logger.error: the call returns
AfterFailure(t) == AfterProcess(t)

\* _image_processing_worker: image_queue.get(timeout=1) returns an item
WorkerGet(w) ==
    /\ pc[w] = "idle"
    /\ running
    /\ image_queue # <<>>
    /\ item' = [item EXCEPT ![w] = Head(image_queue)]
    /\ image_queue' = Tail(image_queue)
    /\ pc' = [pc EXCEPT ![w] = "check"]
    /\ ret' = [ret EXCEPT ![w] = "main"]
    /\ UNCHANGED <<handlerVars, admVars, regVars, diskVars, dnames, dcur,
                   sinkVars, colVars, reapVars, histVars>>

\* _image_processing_worker: the get times out, the worker drains pending items
WorkerTimeout(w) ==
    /\ pc[w] = "idle"
    /\ running
    /\ image_queue = <<>>
    /\ pc' = [pc EXCEPT ![w] = "names"]
    /\ UNCHANGED <<handlerVars, admVars, regVars, diskVars, image_queue, item,
                   ret, dnames, dcur, sinkVars, colVars, reapVars, histVars>>

\* _pending_processor_worker: sleep(2), then _process_pending_items
PendingWake ==
    /\ pc[PendingProcessor] = "idle"
    /\ running
    /\ pc' = [pc EXCEPT ![PendingProcessor] = "names"]
    /\ UNCHANGED <<handlerVars, admVars, regVars, diskVars, image_queue, item,
                   ret, dnames, dcur, sinkVars, colVars, reapVars, histVars>>

\* while self.running: a loop that finds the flag cleared ends
LoopExit(t) ==
    /\ pc[t] = "idle"
    /\ ~running
    /\ pc' = [pc EXCEPT ![t] = "done"]
    /\ UNCHANGED <<handlerVars, admVars, regVars, diskVars, image_queue, item,
                   ret, dnames, dcur, sinkVars, colVars, reapVars, histVars>>

\* _image_processing_worker: the threshold check on the item taken
WorkerCheck(w) ==
    /\ pc[w] = "check"
    /\ counters' = can_process_counters(counters, item[w].name)
    /\ IF can_process(counters, item[w].name)
       THEN pc' = [pc EXCEPT ![w] = "move"]
       ELSE pc' = [pc EXCEPT ![w] = "hold"]
    /\ UNCHANGED <<handlerVars, threshold, pending_queues, regVars, diskVars,
                   image_queue, item, ret, dnames, dcur, sinkVars, colVars,
                   reapVars, histVars>>

\* a worker that keeps a denied item at the head of image_queue until it is admitted
WorkerHoldBlocks(w) ==
    /\ pc[w] = "hold"
    /\ image_queue' = <<item[w]>> \o image_queue
    /\ pc' = [pc EXCEPT ![w] = "idle"]
    /\ item' = [item EXCEPT ![w] = NoItem]
    /\ UNCHANGED <<handlerVars, admVars, regVars, diskVars, ret, dnames, dcur,
                   sinkVars, colVars, reapVars, histVars>>

\* _image_processing_worker: threshold reached, the item goes to the pending queue
WorkerHold(w) ==
    /\ pc[w] = "hold"
    /\ pending_queues' = add_pending(pending_queues, item[w].name, item[w])
    /\ pendLog' = [pendLog EXCEPT ![item[w].name] = Append(@, item[w].img)]
    /\ pc' = [pc EXCEPT ![w] = "idle"]
    /\ item' = [item EXCEPT ![w] = NoItem]
    /\ UNCHANGED <<handlerVars, threshold, counters, regVars, diskVars,
                   image_queue, ret, dnames, dcur, sinkVars, colVars, reapVars,
                   dispatchLog, failLog, lateReturns, lostItems>>

\* _process_image up to the copy: a file that no longer exists ends the call;
\* otherwise the original is moved below output_base_folder and the copy named
\* folder___file is handed to the sink
ProcessHandoff(t) ==
    /\ pc[t] = "move"
    /\ IF <<item[t].name, item[t].img>> \in inputFiles
       THEN /\ inputFiles' = inputFiles \ {<<item[t].name, item[t].img>>}
            /\ outputFiles' = outputFiles \cup {<<item[t].name, item[t].img>>}
            /\ sinkFiles' = sinkFiles \cup {NewName(item[t].name, item[t].img)}
            /\ dispatchLog' = Append(dispatchLog, item[t])
            /\ pc' = [pc EXCEPT ![t] = "inc"]
            /\ UNCHANGED failLog
       ELSE /\ AfterFailure(t)
            /\ failLog' = Append(failLog, [name |-> item[t].name,
                                           img |-> item[t].img, why |-> "gone"])
            /\ UNCHANGED <<inputFiles, outputFiles, sinkFiles, dispatchLog>>
    /\ UNCHANGED <<handlerVars, admVars, regVars, folderOnDisk, childOnDisk,
                   image_queue, item, ret, dnames, dcur, destFiles,
                   processor_queue, colVars, reapVars, pendLog, lateReturns,
                   lostItems>>

\* _process_image when the file system fails: shutil.move raises and the call
\* returns ("move_failed"), or the move succeeds and shutil.copy2 into the sink
\* folder raises ("copy_failed"); neither path reaches increment
ProcessHandoffFails(t) ==
    /\ pc[t] = "move"
    /\ <<item[t].name, item[t].img>> \in inputFiles
    /\ \E why \in {"move_failed", "copy_failed"} :
          /\ failLog' = Append(failLog, [name |-> item[t].name,
                                         img |-> item[t].img, why |-> why])
          /\ IF why = "copy_failed"
             THEN /\ inputFiles' = inputFiles \ {<<item[t].name, item[t].img>>}
                  /\ outputFiles' =
                       outputFiles \cup {<<item[t].name, item[t].img>>}
             ELSE UNCHANGED <<inputFiles, outputFiles>>
    /\ AfterFailure(t)
    /\ UNCHANGED <<handlerVars, admVars, regVars, folderOnDisk, childOnDisk,
                   image_queue, item, ret, dnames, dcur, sinkFiles, destFiles,
                   processor_queue, colVars, reapVars, dispatchLog, pendLog,
                   lateReturns, lostItems>>

\* _process_image, last part: processing_counter.increment(folder_name)
ProcessIncrement(t) ==
    /\ pc[t] = "inc"
    /\ counters' = increment(counters, item[t].name)
    /\ AfterProcess(t)
    /\ UNCHANGED <<handlerVars, threshold, pending_queues, regVars, diskVars,
                   image_queue, item, ret, dnames, dcur, sinkVars, colVars,
                   reapVars, histVars>>

\* _process_pending_items: the snapshot of the watched folder names
DrainNames(t) ==
    /\ pc[t] = "names"
    /\ LET names == RegNames(watched_folders)
       IN  IF names = <<>>
           THEN /\ pc' = [pc EXCEPT ![t] = "idle"]
                /\ UNCHANGED <<dnames, dcur>>
           ELSE /\ pc' = [pc EXCEPT ![t] = "d_can"]
                /\ dcur' = [dcur EXCEPT ![t] = Head(names)]
                /\ dnames' = [dnames EXCEPT ![t] = Tail(names)]
    /\ item' = [item EXCEPT ![t] = NoItem]
    /\ UNCHANGED <<handlerVars, admVars, regVars, diskVars, image_queue, ret,
                   sinkVars, colVars, reapVars, histVars>>

\* _process_pending_items: while can_process(folder_name) ...
DrainCanProcess(t) ==
    /\ pc[t] = "d_can"
    /\ counters' = can_process_counters(counters, dcur[t])
    /\ IF can_process(counters, dcur[t])
       THEN /\ pc' = [pc EXCEPT ![t] = "d_has"]
            /\ UNCHANGED <<dnames, dcur>>
       ELSE NextFolder(t)
    /\ UNCHANGED <<handlerVars, threshold, pending_queues, regVars, diskVars,
                   image_queue, item, ret, sinkVars, colVars, reapVars,
                   histVars>>

\* _process_pending_items: ... and has_pending(folder_name)
DrainHasPending(t) ==
    /\ pc[t] = "d_has"
    /\ IF has_pending(pending_queues, dcur[t])
       THEN /\ pc' = [pc EXCEPT ![t] = "d_get"]
            /\ UNCHANGED <<dnames, dcur>>
       ELSE NextFolder(t)
    /\ UNCHANGED <<handlerVars, admVars, regVars, diskVars, image_queue, item,
                   ret, sinkVars, colVars, reapVars, histVars>>

\* _process_pending_items: get_pending, and _process_image on what it returned
DrainGetPending(t) ==
    /\ pc[t] = "d_get"
    /\ pending_queues' = get_pending_queues(pending_queues, dcur[t])
    /\ LET got == get_pending_item(pending_queues, dcur[t])
       IN  IF got = NoItem
           THEN /\ pc' = [pc EXCEPT ![t] = "d_can"]
                /\ UNCHANGED <<item, ret, dcur>>
           ELSE /\ item' = [item EXCEPT ![t] = got]
                /\ dcur' = [dcur EXCEPT ![t] = got.name]
                /\ ret' = [ret EXCEPT ![t] = "drain"]
                /\ pc' = [pc EXCEPT ![t] = "move"]
    /\ UNCHANGED <<handlerVars, threshold, counters, regVars, diskVars,
                   image_queue, dnames, sinkVars, colVars, reapVars, histVars>>

\* ------------------------------------------------- the sink and the collector
\* the external sink (Lightroom) writes the artifact of a file it was handed into
\* the destination folder; the destination handler queues it for _process_file
LightroomReturns(n) ==
    /\ n \in sinkFiles
    /\ sinkFiles' = sinkFiles \ {n}
    /\ destFiles' = destFiles \cup {n}
    /\ processor_queue' = Append(processor_queue, n)
    /\ UNCHANGED <<handlerVars, admVars, regVars, diskVars, image_queue,
                   thrVars, outputFiles, colVars, reapVars, histVars>>

\* _process_file up to the move: what becomes of the file named filename.
\* "skip": left where it is; "move": moved to output/<folder>/<processed>/<name>
ProcessFileParts(filename) == SplitOnce(filename, Separator)

ProcessFileVerdict(filename) ==
    IF ~Contains(filename, Separator) THEN "skip"
    ELSE IF Len(ProcessFileParts(filename)) # 2 THEN "skip"
    ELSE "move"

ProcessFileFolder(filename) == ProcessFileParts(filename)[1]
ProcessFileOriginal(filename) == ProcessFileParts(filename)[2]
\* the destination without the processed subfolder
ProcessFileDestinationFlat(filename) ==
    <<ProcessFileFolder(filename), ProcessFileOriginal(filename)>>
ProcessFileDestination(filename) ==
    <<ProcessFileFolder(filename), ProcessedSubdir, ProcessFileOriginal(filename)>>

\* a file that no dispatch produced is written into the destination folder; the
\* destination handler queues it like any other
StrayArtifact(n) ==
    /\ n \notin destFiles
    /\ \A i \in 1..Len(processor_queue) : processor_queue[i] # n
    /\ ProcessFileVerdict(n) = "move" => ProcessFileDestination(n) \notin outputFiles
    /\ destFiles' = destFiles \cup {n}
    /\ processor_queue' = Append(processor_queue, n)
    /\ UNCHANGED <<handlerVars, admVars, regVars, diskVars, image_queue,
                   thrVars, sinkFiles, outputFiles, colVars, reapVars,
                   histVars>>

\* the session folder s was registered and _stop_watching_folder ran to its end
TornDown(s) == s \in started /\ s \notin folderOnDisk

\* _processing_worker / _process_file: take a path from processor_queue, parse the
\* name and move the file to its output folder
CollectorMove ==
    /\ cpc = "idle"
    /\ processor_queue # <<>>
    /\ processor_queue' = Tail(processor_queue)
    /\ LET filename == Head(processor_queue)
       IN  IF filename \in destFiles /\ ProcessFileVerdict(filename) = "move"
           THEN /\ destFiles' = destFiles \ {filename}
                /\ outputFiles' = outputFiles \cup {ProcessFileDestination(filename)}
                /\ cpc' = "dec"
                /\ cfile' = filename
                /\ cfolder' = ProcessFileFolder(filename)
                /\ lateReturns' =
                     IF TornDown(ProcessFileFolder(filename))
                     THEN lateReturns \cup {<<filename, <<>>>>}
                     ELSE lateReturns
           ELSE UNCHANGED <<destFiles, outputFiles, colVars, lateReturns>>
    /\ UNCHANGED <<handlerVars, admVars, regVars, diskVars, image_queue,
                   thrVars, sinkFiles, reapVars, dispatchLog, pendLog, failLog,
                   lostItems>>

\* _process_file, last part: processing_counter.decrement(folder_name)
CollectorDecrement ==
    /\ cpc = "dec"
    /\ counters' = decrement(counters, cfolder)
    /\ cpc' = "idle"
    /\ cfile' = None
    /\ cfolder' = None
    /\ lateReturns' =
         IF <<cfile, <<>>>> \in lateReturns /\ cfolder \notin DOMAIN counters
         THEN (lateReturns \ {<<cfile, <<>>>>})
                 \cup {<<cfile, <<decrement_result(counters, cfolder)>>>>}
         ELSE lateReturns
    /\ UNCHANGED <<handlerVars, threshold, pending_queues, regVars, diskVars,
                   image_queue, thrVars, sinkVars, reapVars, dispatchLog,
                   pendLog, failLog, lostItems>>

\* ------------------------------------------------------------ the reaper
\* time passes: every registered folder gets older (ages saturate at the timeout,
\* which is all the reaper's comparison can tell apart)
Aged(e) == e.age >= TimeoutTicks

Tick ==
    /\ \E i \in 1..Len(watched_folders) : ~Aged(watched_folders[i])
    /\ watched_folders' =
         [i \in 1..Len(watched_folders) |->
            IF Aged(watched_folders[i]) THEN watched_folders[i]
            ELSE [watched_folders[i] EXCEPT !.age = @ + 1]]
    /\ UNCHANGED <<handlerVars, admVars, running, observers,
                   child_folder_found, processed_files, started, diskVars,
                   image_queue, thrVars, sinkVars, colVars, reapVars,
                   histVars>>

\* a timeout that waits for the admission counter of the folder to be zero
TimedOutWhenIdle(e) == Aged(e) /\ get_count(counters, e.path) = 0
\* age_seconds >= self.folder_timeout_seconds
TimedOut(e) == Aged(e)

\* folders_to_remove, in the order of the registry
FoldersToRemove(reg) ==
    LET F[i \in 0..Len(reg)] ==
            IF i = 0 THEN <<>>
            ELSE IF TimedOut(reg[i]) THEN Append(F[i - 1], reg[i].path) ELSE F[i - 1]
    IN  F[Len(reg)]

\* what the reaper does after one _stop_watching_folder call
ReaperNext ==
    IF rlist = <<>>
    THEN /\ rpc' = "sleep"
         /\ rcur' = None
         /\ UNCHANGED rlist
    ELSE /\ rpc' = "r_del"
         /\ rcur' = Head(rlist)
         /\ rlist' = Tail(rlist)

\* _folder_management_worker: one pass over the registry after sleep(10)
ReaperCollect ==
    /\ rpc = "sleep"
    /\ running
    /\ FoldersToRemove(watched_folders) # <<>>
    /\ rpc' = "r_del"
    /\ rcur' = Head(FoldersToRemove(watched_folders))
    /\ rlist' = Tail(FoldersToRemove(watched_folders))
    /\ UNCHANGED <<handlerVars, admVars, regVars, diskVars, image_queue,
                   thrVars, sinkVars, colVars, robs, histVars>>

\* while self.running, in the reaper
ReaperExit ==
    /\ rpc = "sleep"
    /\ ~running
    /\ rpc' = "done"
    /\ UNCHANGED <<handlerVars, admVars, regVars, diskVars, image_queue,
                   thrVars, sinkVars, colVars, rlist, rcur, robs, histVars>>

\* _stop_watching_folder: the registry entry is deleted (a path no longer
\* registered ends the call)
ReaperDelete ==
    /\ rpc = "r_del"
    /\ IF InReg(rcur)
       THEN /\ watched_folders' = RegDel(watched_folders, rcur)
            /\ robs' = RegEntry(rcur).kind
            /\ rpc' = "r_stop"
            /\ UNCHANGED <<rlist, rcur>>
       ELSE /\ ReaperNext
            /\ UNCHANGED <<watched_folders, robs>>
    /\ UNCHANGED <<handlerVars, admVars, running, observers,
                   child_folder_found, processed_files, started, diskVars,
                   image_queue, thrVars, sinkVars, colVars, histVars>>

\* _stop_watching_folder: observer.stop()
ReaperStopObserver ==
    /\ rpc = "r_stop"
    /\ observers' = [observers EXCEPT ![<<rcur, robs>>] = "stopped"]
    /\ rpc' = "r_rm"
    /\ robs' = "none"
    /\ UNCHANGED <<handlerVars, admVars, running, watched_folders,
                   child_folder_found, processed_files, started, diskVars,
                   image_queue, thrVars, sinkVars, colVars, rlist, rcur,
                   histVars>>

\* ProcessingCounter.remove_folder: the counters and the queues afterwards
\* a remove_folder that clears the whole dict
remove_folder_clear(c, folder_name) == EmptyMap
remove_folder_counters(c, folder_name) == MapDel(c, folder_name)
\* a remove_folder that forgets the counter and keeps the deque
remove_folder_keeps_queue(q, folder_name) == q
remove_folder_queues(q, folder_name) == MapDel(q, folder_name)

\* _stop_watching_folder: processing_counter.remove_folder(folder_name)
ReaperRemoveFolder ==
    /\ rpc = "r_rm"
    /\ counters' = remove_folder_counters(counters, rcur)
    /\ pending_queues' = remove_folder_queues(pending_queues, rcur)
    /\ rpc' = "r_tree"
    /\ lostItems' =
         lostItems \cup
            (IF rcur \in DOMAIN pending_queues
             THEN {pending_queues[rcur][i] : i \in 1..Len(pending_queues[rcur])}
             ELSE {})
    /\ UNCHANGED <<handlerVars, threshold, regVars, diskVars, image_queue,
                   thrVars, sinkVars, colVars, rlist, rcur, robs, dispatchLog,
                   pendLog, failLog, lateReturns>>

\* _stop_watching_folder: shutil.rmtree(folder)
ReaperRmtree ==
    /\ rpc = "r_tree"
    /\ folderOnDisk' = folderOnDisk \ {rcur}
    /\ childOnDisk' = childOnDisk \ {rcur}
    /\ inputFiles' = {x \in inputFiles : x[1] # rcur}
    /\ ReaperNext
    /\ UNCHANGED <<handlerVars, admVars, regVars, image_queue, thrVars,
                   sinkVars, colVars, robs, histVars>>

\* FolderWatcher.stop: the flag is cleared, every registered observer is stopped
\* and the registry is emptied
Stop ==
    /\ running
    /\ running' = FALSE
    /\ observers' =
         [o \in ObserverIds |->
            IF InReg(o[1]) /\ RegEntry(o[1]).kind = o[2] THEN "stopped"
            ELSE observers[o]]
    /\ watched_folders' = <<>>
    /\ UNCHANGED <<handlerVars, admVars, child_folder_found, processed_files,
                   started, diskVars, image_queue, thrVars, sinkVars, colVars,
                   reapVars, histVars>>

\* ------------------------------------------------------- specification
\* the sessions and image files of the full composition
MainSessions == {Session1}
MainImages == {ImgA, ImgB}
\* the image files of the admission runs
AdmImages == {ImgA, ImgB, ImgC}

\* the file system below the watch root changes
DiskStep(S, I) ==
    \/ \E s \in S : CreateFolder(s)
    \/ \E s \in S : CreateChild(s)
    \/ \E s \in S : \E f \in I : DropImage(s, f)

\* a watch starts, escalates or emits an image
WatchStep(S, I) ==
    \/ \E s \in S : StartWatchingFolder(s)
    \/ \E s \in S : SubfolderFound(s)
    \/ \E s \in S : \E f \in I : ImageEmit(s, f)

\* a dispatch worker or the pending processor takes a step
DrainerStep ==
    \/ \E w \in Workers : WorkerGet(w)
    \/ \E w \in Workers : WorkerTimeout(w)
    \/ PendingWake
    \/ \E w \in Workers : WorkerCheck(w)
    \/ \E w \in Workers : WorkerHold(w)
    \/ \E t \in Drainers : ProcessHandoff(t)
    \/ \E t \in Drainers : ProcessIncrement(t)
    \/ \E t \in Drainers : DrainNames(t)
    \/ \E t \in Drainers : DrainCanProcess(t)
    \/ \E t \in Drainers : DrainHasPending(t)
    \/ \E t \in Drainers : DrainGetPending(t)

\* the collector worker takes a step
CollectorStep ==
    \/ CollectorMove
    \/ CollectorDecrement

\* the reaper takes a step
ReaperStep ==
    \/ ReaperCollect
    \/ ReaperDelete
    \/ ReaperStopObserver
    \/ ReaperRemoveFolder
    \/ ReaperRmtree

\* shutdown: stop() and the loops that see the cleared flag
ShutdownStep ==
    \/ Stop
    \/ \E t \in Drainers : LoopExit(t)
    \/ ReaperExit

Next ==
    \/ DiskStep(MainSessions, MainImages)
    \/ WatchStep(MainSessions, MainImages)
    \/ DrainerStep
    \/ \E n \in sinkFiles : LightroomReturns(n)
    \/ CollectorStep
    \/ Tick
    \/ ReaperStep
    \/ ShutdownStep

Spec == Init /\ [][Next]_vars

\* -------------------------------------------- admission runs (one session)
\* the state after Session1 was pasted with its subfolder and its image watch
\* started (CreateFolder, StartWatchingFolder), with the threshold t
InitWatching(t) ==
    /\ HandlerIdle
    /\ threshold = t
    /\ counters = EmptyMap
    /\ pending_queues = EmptyMap
    /\ running = TRUE
    /\ watched_folders = <<[path |-> Session1, kind |-> "img", age |-> 0]>>
    /\ observers = [o \in ObserverIds |->
                      IF o = <<Session1, "img">> THEN "started" ELSE "none"]
    /\ child_folder_found = [s \in SessionNames |-> "none"]
    /\ processed_files = [s \in SessionNames |-> {}]
    /\ started = {Session1}
    /\ folderOnDisk = {Session1}
    /\ childOnDisk = {Session1}
    /\ inputFiles = {}
    /\ image_queue = <<>>
    /\ pc = [d \in Drainers |-> "idle"]
    /\ item = [d \in Drainers |-> NoItem]
    /\ ret = [d \in Drainers |-> "main"]
    /\ dnames = [d \in Drainers |-> <<>>]
    /\ dcur = [d \in Drainers |-> None]
    /\ sinkFiles = {}
    /\ destFiles = {}
    /\ processor_queue = <<>>
    /\ outputFiles = {}
    /\ cpc = "idle"
    /\ cfile = None
    /\ cfolder = None
    /\ rpc = "sleep"
    /\ rlist = <<>>
    /\ rcur = None
    /\ robs = "none"
    /\ dispatchLog = <<>>
    /\ pendLog = [s \in SessionNames |-> <<>>]
    /\ failLog = <<>>
    /\ lateReturns = {}
    /\ lostItems = {}

InitAdm == \E t \in 1..MaxThreshold : InitWatching(t)

NextAdm ==
    \/ \E f \in AdmImages : DropImage(Session1, f)
    \/ \E f \in AdmImages : ImageEmit(Session1, f)
    \/ DrainerStep
    \/ \E n \in sinkFiles : LightroomReturns(n)
    \/ CollectorStep

SpecAdm == InitAdm /\ [][NextAdm]_vars

\* ------------------------------------------------------- claims C1, C4
\* position of image f of folder s in the order of handoffs to the sink (0: not
\* handed over)
DispatchPos(s, f) ==
    IF \E i \in 1..Len(dispatchLog) : dispatchLog[i] = [name |-> s, img |-> f]
    THEN CHOOSE i \in 1..Len(dispatchLog) : dispatchLog[i] = [name |-> s, img |-> f]
    ELSE 0

\* C1: for every session id, in every reachable state, the admission counter
\* (and so the value any increment returned) is at most the threshold.
C1_CounterAtMostThreshold ==
    \A s \in DOMAIN counters : counters[s] <= threshold

\* C4: if x was added to a session's pending queue before y, then x is handed to
\* the sink before y (stated on the items that were both handed over).
C4_PendingDispatchedInFifoOrder ==
    \A s \in SessionNames :
        \A i, j \in 1..Len(pendLog[s]) :
            (/\ i < j
             /\ DispatchPos(s, pendLog[s][i]) # 0
             /\ DispatchPos(s, pendLog[s][j]) # 0)
            => DispatchPos(s, pendLog[s][i]) < DispatchPos(s, pendLog[s][j])

\* --------------------------------------------------------- fairness
\* every thread of the program is a loop that the scheduler keeps running
WorkerSteps(w) ==
    \/ WorkerGet(w)
    \/ WorkerTimeout(w)
    \/ WorkerCheck(w)
    \/ WorkerHold(w)
    \/ ProcessHandoff(w)
    \/ ProcessIncrement(w)
    \/ DrainNames(w)
    \/ DrainCanProcess(w)
    \/ DrainHasPending(w)
    \/ DrainGetPending(w)

PendingSteps ==
    \/ PendingWake
    \/ ProcessHandoff(PendingProcessor)
    \/ ProcessIncrement(PendingProcessor)
    \/ DrainNames(PendingProcessor)
    \/ DrainCanProcess(PendingProcessor)
    \/ DrainHasPending(PendingProcessor)
    \/ DrainGetPending(PendingProcessor)

ThreadFairness ==
    /\ \A w \in Workers : WF_vars(WorkerSteps(w))
    /\ WF_vars(PendingSteps)
    /\ WF_vars(CollectorStep)
    /\ \A f \in ImageNames : WF_vars(ImageEmit(Session1, f))

\* ------------------------------------------ claim C5: the threshold-2 scenario
\* c.jpg is dropped once a.jpg and b.jpg were dispatched and counted
ScenarioDropC ==
    /\ get_count(counters, Session1) = 2
    /\ DropImage(Session1, ImgC)

\* the artifact of a.jpg comes back while c.jpg is held pending
ScenarioReturnA ==
    /\ has_pending(pending_queues, Session1)
    /\ LightroomReturns(NewName(Session1, ImgA))

InitScenario == InitWatching(2)

NextScenario ==
    \/ DropImage(Session1, ImgA)
    \/ DropImage(Session1, ImgB)
    \/ ScenarioDropC
    \/ \E f \in ImageNames : ImageEmit(Session1, f)
    \/ DrainerStep
    \/ ScenarioReturnA
    \/ CollectorStep

SpecScenario == InitScenario /\ [][NextScenario]_vars /\ ThreadFairness

Dispatched(f) == DispatchPos(Session1, f) # 0
Incrementing == \E t \in Drainers : pc[t] = "inc"
\* the artifact of a.jpg was relocated and its return recorded
ReturnedA ==
    /\ <<Session1, ProcessedSubdir, ImgA>> \in outputFiles
    /\ cpc # "dec"

C5_Safety ==
    \* a and b dispatched and counted, nothing returned: the counter is 2
    /\ (Dispatched(ImgA) /\ Dispatched(ImgB) /\ ~Incrementing
          /\ NewName(Session1, ImgA) \in sinkFiles)
       => get_count(counters, Session1) = 2
    \* c is not dispatched while the counter is at 2: it goes through the
    \* pending queue and leaves it only after the return of a
    /\ Dispatched(ImgC) => (ImgC \in {pendLog[Session1][i] :
                                        i \in 1..Len(pendLog[Session1])}
                            /\ ReturnedA)
    \* after the return of a the counter is 1 until c is dispatched
    /\ (ReturnedA /\ ~Dispatched(ImgC)) => get_count(counters, Session1) = 1

C5_Final ==
    /\ Dispatched(ImgC)
    /\ ReturnedA
    /\ get_count(counters, Session1) = 2

\* C5: with threshold 2, a.jpg and b.jpg dispatched make the counter 2; c.jpg is
\* then held pending; the return of a.jpg makes the counter 1, and c.jpg is
\* eventually taken from the pending queue and dispatched, the counter being 2 again.
C5_ThresholdScenario ==
    /\ []C5_Safety
    /\ (NewName(Session1, ImgA) \in destFiles) ~> []C5_Final

\* ------------------------------------- runs of one image handler in detail
\* the watched folder holds any of the entries when the handler is built
InitHandler ==
    /\ threshold = MaxThreshold
    /\ MainIdle
    /\ EscIdle
    /\ CleanIdle
    /\ NewIdle
    /\ dirEntries \in SUBSET Entries
    /\ hstate = "new"
    /\ pending_files = <<>>
    /\ dpc = "sleep"
    /\ dlag = 0
    /\ eventCount = [p \in Paths |-> 0]
    /\ listed = {}
    /\ putCount = [p \in Paths |-> 0]
    /\ emitCount = [p \in Paths |-> 0]
    /\ emitAge = [p \in Paths |-> 0]

NextWatch ==
    \/ InitializeExistingFiles
    \/ \E e \in Entries : OnCreated(e)
    \/ \E e \in Entries : OnMoved(e)
    \/ ClockTick
    \/ DebounceRead
    \/ DebounceSweep

\* the handler is built, the clock advances and the debounce thread keeps looping
WatchFairness ==
    /\ WF_vars(InitializeExistingFiles)
    /\ WF_vars(ClockTick)
    /\ WF_vars(DebounceRead)
    /\ WF_vars(DebounceSweep)

SpecWatch == InitHandler /\ [][NextWatch]_vars /\ WatchFairness

\* C2: whatever events arrive, and whatever was listed when the watch started,
\* every resolved path is put on the image queue at most once.
C2_PathQueuedAtMostOnce ==
    \A p \in Paths : putCount[p] <= 1

\* what a burst of events for the path p has produced, in every state
BurstOutcome(p) ==
    /\ emitCount[p] <= 1
    /\ p \in PendingPaths => emitCount[p] = 0
    /\ (p \in Evented /\ p \notin PendingPaths) => emitCount[p] = 1
    /\ emitCount[p] = 1 => (emitAge[p] >= DebounceTicks /\ p \notin PendingPaths)

\* C3 (as amended): for a path that was not listed when the watch started, the
\* events of a burst produce exactly one ready emission, made when the quiet
\* period has passed since the last event, and the path has then left the
\* pending map; the emission does come.
C3_OneEmissionPerFreshPath ==
    /\ [](\A p \in Paths : p \notin listed => BurstOutcome(p))
    /\ \A p \in Paths : (p \in Evented /\ p \notin listed) ~> (emitCount[p] = 1)

\* a burst of two events or more for a path not listed at the start was emitted
C3_Witness ==
    /\ eventCount[EntB] >= 2
    /\ EntB \notin listed
    /\ emitCount[EntB] = 1
    /\ EntB \notin PendingPaths

\* C3 (as stated): every burst of events for a path produces exactly one ready
\* emission, after which the path is out of the pending map.
C3_OneEmissionPerBurst ==
    \A p \in Paths : BurstOutcome(p)

\* ------------------------------------------- runs on the file names
\* one session folder of any of the names was pasted with its subfolder; the
\* threshold is 1
InitNames ==
    /\ HandlerIdle
    /\ threshold = 1
    /\ \E s \in NameSessions :
          /\ folderOnDisk = {s}
          /\ childOnDisk = {s}
    /\ counters = EmptyMap
    /\ pending_queues = EmptyMap
    /\ running = TRUE
    /\ watched_folders = <<>>
    /\ observers = [o \in ObserverIds |-> "none"]
    /\ child_folder_found = [s \in SessionNames |-> "none"]
    /\ processed_files = [s \in SessionNames |-> {}]
    /\ started = {}
    /\ inputFiles = {}
    /\ image_queue = <<>>
    /\ pc = [t \in Drainers |-> "idle"]
    /\ item = [t \in Drainers |-> NoItem]
    /\ ret = [t \in Drainers |-> "main"]
    /\ dnames = [t \in Drainers |-> <<>>]
    /\ dcur = [t \in Drainers |-> None]
    /\ sinkFiles = {}
    /\ destFiles = {}
    /\ processor_queue = <<>>
    /\ outputFiles = {}
    /\ cpc = "idle"
    /\ cfile = None
    /\ cfolder = None
    /\ rpc = "sleep"
    /\ rlist = <<>>
    /\ rcur = None
    /\ robs = "none"
    /\ dispatchLog = <<>>
    /\ pendLog = [s \in SessionNames |-> <<>>]
    /\ failLog = <<>>
    /\ lateReturns = {}
    /\ lostItems = {}

NextNames ==
    \/ \E s \in NameSessions : StartWatchingFolder(s)
    \/ \E s \in NameSessions : \E f \in MainImages : DropImage(s, f)
    \/ \E s \in NameSessions : \E f \in MainImages : ImageEmit(s, f)
    \/ DrainerStep
    \/ \E n \in sinkFiles : LightroomReturns(n)
    \/ \E n \in StrayNames : StrayArtifact(n)
    \/ CollectorStep

SpecNames == InitNames /\ [][NextNames]_vars

\* ------------------------------------------------- claims C6 .. C9
\* the places of name where the separator occurs
SeparatorPlaces(name) == {i \in 1..Len(name) : OccursAt(name, Separator, i)}

\* the number of separators in name, counted one after the other (str.count)
RECURSIVE CountSeparators(_)
CountSeparators(name) ==
    IF ~Contains(name, Separator) THEN 0
    ELSE 1 + CountSeparators(SubSeq(name, FirstIndex(name, Separator) + Len(Separator),
                                    Len(name)))

\* the collector worker takes the file at the head of its queue in this step
CollectorTakes(n) ==
    /\ cpc = "idle"
    /\ processor_queue # <<>>
    /\ Head(processor_queue) = n
    /\ n \in destFiles
    /\ processor_queue' = Tail(processor_queue)

\* the counters after one return for the session id
AfterReturn(c, id) ==
    IF id \in DOMAIN c
    THEN [x \in DOMAIN c |-> IF x = id /\ c[x] > 0 THEN c[x] - 1 ELSE c[x]]
    ELSE c

C6_Step ==
    /\ \A id \in SessionNames : \A name \in ImageNames :
          LET n == id \o Separator \o name
          IN  SeparatorPlaces(n) = {Len(id) + 1} =>
                /\ CollectorTakes(n) =>
                      /\ destFiles' = destFiles \ {n}
                      /\ outputFiles' = outputFiles \cup {<<id, ProcessedSubdir, name>>}
                      /\ cpc' = "dec"
                      /\ cfile' = n
                      /\ counters' = counters
                /\ (cpc = "dec" /\ cfile = n /\ cpc' = "idle") =>
                      counters' = AfterReturn(counters, id)
    /\ \A n \in destFiles :
          (SeparatorPlaces(n) = {} /\ CollectorTakes(n)) =>
             /\ UNCHANGED <<destFiles, outputFiles, counters, pending_queues>>
             /\ cpc' = "idle"

\* C6: an artifact named <id><SEP><name> (the separator occurring at that one
\* place) is moved to <id>/<processedSubdir>/<name> below the output root and the
\* counter of <id> is then decremented; an artifact without the separator stays
\* in the return folder and no counter changes.
C6_CollectorRoutesByName == [][C6_Step]_vars

\* the artifact of a.jpg of session A was routed and counted back, and the file
\* without separator was examined and left where it was
C6_Witness ==
    /\ <<SessA, ProcessedSubdir, ImgA>> \in outputFiles
    /\ NewName(SessA, ImgA) \notin destFiles
    /\ cpc = "idle"
    /\ SessA \in DOMAIN counters
    /\ counters[SessA] = 0
    /\ StrayPlain \in destFiles
    /\ processor_queue = <<>>

\* C7: a returned artifact whose name holds the separator more than once is never
\* moved out of the return folder and no counter is decremented for it.
C7_RepeatedSeparatorLeftAlone ==
    /\ cpc = "dec" => CountSeparators(cfile) <= 1
    /\ \A n \in StrayNames :
          CountSeparators(n) >= 2 =>
             <<SplitOnce(n, Separator)[1], ProcessedSubdir, SplitOnce(n, Separator)[2]>>
                \notin outputFiles

\* C8: the name built at dispatch from the session folder name s and the file
\* name f is decoded by the collector to (s, f), for every dispatch made.
C8_NameRoundTrip ==
    \A i \in 1..Len(dispatchLog) :
        LET s == dispatchLog[i].name
            f == dispatchLog[i].img
        IN  /\ ProcessFileVerdict(NewName(s, f)) = "move"
            /\ ProcessFileFolder(NewName(s, f)) = s
            /\ ProcessFileOriginal(NewName(s, f)) = f

\* C9: a session folder whose name contains the separator gets no watch and
\* none of its images is dispatched.
C9_SeparatorNameRejected ==
    \A s \in SessionNames :
        Contains(s, Separator) =>
            /\ ~InReg(s)
            /\ \A i \in 1..Len(dispatchLog) : dispatchLog[i].name # s

\* ------------------------------------------------ the lifecycle, fairly run
\* b.jpg is dropped while a.jpg is with the sink and the drainers are idle
LateDropB ==
    /\ NewName(Session1, ImgA) \in sinkFiles
    /\ \A d \in Drainers : pc[d] = "idle"
    /\ DropImage(Session1, ImgB)

InitReaper ==
    /\ HandlerIdle
    /\ threshold = 1
    /\ MainIdle

NextReaper ==
    \/ \E s \in MainSessions : CreateFolder(s)
    \/ \E s \in MainSessions : CreateChild(s)
    \/ DropImage(Session1, ImgA)
    \/ LateDropB
    \/ WatchStep(MainSessions, MainImages)
    \/ DrainerStep
    \/ \E n \in sinkFiles : LightroomReturns(n)
    \/ CollectorStep
    \/ Tick
    \/ ReaperStep
    \/ ShutdownStep

\* time passes, and the reaper thread keeps looping while the watcher runs
ReaperFairness ==
    /\ WF_vars(Tick)
    /\ WF_vars(ReaperStep)

SpecReaper == InitReaper /\ [][NextReaper]_vars /\ ReaperFairness

\* what each part of one _stop_watching_folder call of the reaper leaves behind
C10_Step ==
    /\ (rpc = "r_del" /\ rpc' = "r_stop") => (rcur' = rcur /\ rcur \notin RegPaths')
    /\ (rpc = "r_stop" /\ rpc' = "r_rm") => observers'[<<rcur, robs>>] = "stopped"
    /\ (rpc = "r_rm" /\ rpc' = "r_tree") =>
          (rcur \notin DOMAIN counters' /\ rcur \notin DOMAIN pending_queues')
    /\ (rpc = "r_tree" /\ rpc' # "r_tree") => rcur \notin folderOnDisk'

LifecycleArtifacts == {NewName(id, f) : id \in MainSessions, f \in MainImages}

C11_Step ==
    /\ \A n \in LifecycleArtifacts :
          (CollectorTakes(n) /\ TornDown(ProcessFileFolder(n))) =>
             /\ n \notin destFiles'
             /\ outputFiles' = outputFiles \cup
                   {<<ProcessFileFolder(n), ProcessedSubdir, ProcessFileOriginal(n)>>}
             /\ cpc' = "dec"
             /\ cfolder' = ProcessFileFolder(n)
    /\ (cpc = "dec" /\ cpc' = "idle" /\ cfolder \notin DOMAIN counters) =>
          /\ counters' = counters
          /\ decrement_result(counters, cfolder) = 0

\* C11: an artifact <id><SEP><name> that the collector takes after the session
\* <id> was torn down (folder deleted, counter and pending queue removed) is
\* still moved to <id>/<processedSubdir>/<name> below the output root, and the
\* decrement for the id that is no longer known changes no counter and returns 0.
C11_LateArtifactStillRouted ==
    /\ [][C11_Step]_vars
    /\ [](\A x \in lateReturns :
            /\ ProcessFileDestination(x[1]) \in outputFiles
            /\ x[1] \notin destFiles
            /\ x[2] \in {<<>>, <<0>>})

\* an artifact of the torn-down Session1 was moved to its output folder and the
\* decrement for the unknown id has returned
C11_Witness ==
    /\ <<NewName(Session1, ImgA), <<0>>>> \in lateReturns
    /\ Session1 \notin DOMAIN counters
    /\ <<Session1, ProcessedSubdir, ImgA>> \in outputFiles
    /\ cpc = "idle"

\* ------------------------------------------------------------ claim C15
\* the counter of id as the claim reads it: a missing entry counts as 0
CounterOrZero(id) == IF id \in DOMAIN counters THEN counters[id] ELSE 0

\* the answer that the caller of can_process acts on in this step, per thread
C15_Step ==
    /\ \A w \in Workers :
          (pc[w] = "check" /\ pc'[w] # "check") =>
             /\ pc'[w] = "move" <=> CounterOrZero(item[w].name) < threshold
             /\ pc'[w] = "hold" <=> CounterOrZero(item[w].name) >= threshold
    /\ \A t \in Drainers :
          (pc[t] = "d_can" /\ pc'[t] # "d_can") =>
             (pc'[t] = "d_has" <=> CounterOrZero(dcur[t]) < threshold)

\* C15: can_process(id) answers true exactly when the counter of id is below the
\* threshold, an id without an entry counting as 0: the dispatch worker goes on
\* to the handoff on true and to add_pending on false, and the drain loop goes
\* on to has_pending exactly on true.
C15_CanProcessBelowThreshold == [][C15_Step]_vars

\* the dispatch worker was refused at a counter that had reached the threshold,
\* after an earlier image of the folder (which had no entry then) was admitted
C15_Witness ==
    /\ pc["w1"] = "hold"
    /\ CounterOrZero(item["w1"].name) = threshold
    /\ \E f \in AdmImages : f \in processed_files[Session1] /\ DispatchPos(Session1, f) # 0

\* ------------------------------------------------------------ claim C16
C16_Step ==
    (cpc = "dec" /\ cpc' = "idle") =>
       /\ (cfolder \in DOMAIN counters /\ counters[cfolder] > 0) =>
             counters' = [counters EXCEPT ![cfolder] = @ - 1]
       /\ (cfolder \in DOMAIN counters /\ counters[cfolder] = 0) =>
             counters' = counters
       /\ cfolder \notin DOMAIN counters =>
             (counters' = counters /\ decrement_result(counters, cfolder) = 0)

\* C16: the counter of every id is at least 0 in every reachable state; a
\* decrement lowers a positive counter by exactly one, leaves a counter of 0 at
\* 0, and for an id without an entry changes nothing and returns 0.
C16_CounterNeverNegative ==
    /\ [](\A id \in DOMAIN counters : counters[id] >= 0)
    /\ [][C16_Step]_vars

\* the artifact A___x___y, which no dispatch produced, was returned for session A
\* before any image of A was counted: its decrement found no entry or an entry
\* of 0, and the counter of A is 0
C16_Witness ==
    /\ ProcessFileDestination(StrayTwice) \in outputFiles
    /\ cpc = "idle"
    /\ dispatchLog = <<>>
    /\ SessA \in DOMAIN counters
    /\ counters[SessA] = 0

\* ------------------------------------- handoffs that fail (one session)
\* an image file that was queued is deleted from the session folder before
\* _process_image reaches it
RemoveImage(s, f) ==
    /\ <<s, f>> \in inputFiles
    /\ f \in processed_files[s]
    /\ inputFiles' = inputFiles \ {<<s, f>>}
    /\ UNCHANGED <<handlerVars, admVars, regVars, folderOnDisk, childOnDisk,
                   image_queue, thrVars, sinkVars, colVars, reapVars,
                   histVars>>

NextHandoff ==
    \/ \E f \in MainImages : DropImage(Session1, f)
    \/ \E f \in MainImages : ImageEmit(Session1, f)
    \/ \E f \in MainImages : RemoveImage(Session1, f)
    \/ DrainerStep
    \/ \E t \in Drainers : ProcessHandoffFails(t)
    \/ \E n \in sinkFiles : LightroomReturns(n)
    \/ CollectorStep

SpecHandoff == InitAdm /\ [][NextHandoff]_vars

\* ------------------------------------------------------ claims C17, C18
\* the number of _process_image calls made for the item so far that got as far
\* as the file (handed over, or failed)
Attempts(it) ==
    Cardinality({i \in 1..Len(dispatchLog) : dispatchLog[i] = it})
      + Cardinality({i \in 1..Len(failLog) :
                       failLog[i].name = it.name /\ failLog[i].img = it.img})

\* the items whose _process_image call failed
FailedItems == {[name |-> failLog[i].name, img |-> failLog[i].img] :
                   i \in 1..Len(failLog)}

\* the item is queued, pending or in the hands of a thread
InHand(it) ==
    \/ \E i \in 1..Len(image_queue) : image_queue[i] = it
    \/ \E s \in DOMAIN pending_queues :
          \E i \in 1..Len(pending_queues[s]) : pending_queues[s][i] = it
    \/ \E t \in Drainers : item[t] = it /\ pc[t] \in {"check", "hold", "move", "inc"}

C17_Step ==
    /\ \A id \in SessionNames :
          get_count(counters', id) > get_count(counters, id) =>
             \E t \in Drainers :
                /\ pc[t] = "inc"
                /\ item[t].name = id
                /\ \E i \in 1..Len(dispatchLog) : dispatchLog[i] = item[t]
                /\ <<id, item[t].img>> \in outputFiles
                /\ get_count(counters', id) = get_count(counters, id) + 1
    /\ failLog' # failLog => counters' = counters

\* C17: the counter of a session goes up only in the step that follows a
\* successful copy of the image into the sink folder; a _process_image call
\* that fails (file gone, move failed, copy failed) leaves the counters as they
\* were, and the item is never handed to _process_image again.
C17_CountedOnlyAfterCopy ==
    /\ [][C17_Step]_vars
    /\ [](\A it \in FailedItems : Attempts(it) = 1 /\ ~InHand(it))

\* one image was copied to the sink and counted, the copy of the other failed
\* after its original was moved; the threads are back in their loops
C17_Witness ==
    /\ \E i \in 1..Len(failLog) : failLog[i].why = "copy_failed"
    /\ Len(dispatchLog) = 1
    /\ get_count(counters, Session1) = 1
    /\ \A t \in Drainers : pc[t] = "idle"
    /\ image_queue = <<>>

\* C18: an item whose copy into the sink folder failed is let go by the
\* dispatcher only after it tried the handoff again at least once.
C18_FailedHandoffRetried ==
    \A i \in 1..Len(failLog) :
        LET it == [name |-> failLog[i].name, img |-> failLog[i].img]
        IN  (failLog[i].why = "copy_failed"
               /\ ~\E t \in Drainers : item[t] = it /\ pc[t] = "move")
            => Attempts(it) >= 2

\* ------------------------------------------------------------ claim C19
C19_Step ==
    (rpc = "r_rm" /\ rpc' = "r_tree") =>
       /\ rcur \notin DOMAIN counters'
       /\ rcur \notin DOMAIN pending_queues'
       /\ \A id \in DOMAIN counters \ {rcur} :
             id \in DOMAIN counters' /\ counters'[id] = counters[id]
       /\ \A id \in DOMAIN pending_queues \ {rcur} :
             id \in DOMAIN pending_queues' /\ pending_queues'[id] = pending_queues[id]

\* C19: remove_folder(id) takes the counter entry and the pending queue of id
\* away, and an item that was in that pending queue when it was removed is never
\* handed to the sink afterwards.
C19_RemovedPendingNeverDispatched ==
    /\ [][C19_Step]_vars
    /\ [](\A it \in lostItems :
            /\ \A i \in 1..Len(dispatchLog) : dispatchLog[i] # it
            /\ NewName(it.name, it.img) \notin sinkFiles
            /\ ~InHand(it))

\* Session1 was torn down while b.jpg was held in its pending queue; the reaper
\* and the dispatch threads are back in their loops
C19_Witness ==
    /\ [name |-> Session1, img |-> ImgB] \in lostItems
    /\ TornDown(Session1)
    /\ Session1 \notin DOMAIN pending_queues
    /\ rpc = "sleep"
    /\ \A t \in Drainers : pc[t] = "idle"

\* ---------------------------------------- ImageCleanup (cleanup_old_images.py)
\* item_age > max_age_seconds
Expired(age) == age > MaxAgeTicks

\* the sort key (len(item_path.parts), is_dir) of one item is below that of another
KeyLess(a, b) ==
    \/ Len(a) < Len(b)
    \/ Len(a) = Len(b) /\ ~IsDir(a) /\ IsDir(b)

\* an order that puts the smallest key first
ShallowFirstOrders(S) ==
    {o \in Orders(S) : \A i, j \in 1..Len(o) : i < j => ~KeyLess(o[j], o[i])}
\* items_to_delete.sort(key=..., reverse=True): the greatest key first; items with
\* equal keys stay in the order rglob listed them, which is any order
DeletionOrders(S) ==
    {o \in Orders(S) : \A i, j \in 1..Len(o) : i < j => ~KeyLess(o[i], o[j])}

\* a worker that goes on whatever the flag says
StillRunningAlways(flag) == TRUE
\* if self.running, after the wait timed out
StillRunning(flag) == flag

\* the ages after the node n was removed from its directory: the directory that
\* held it has a new modification time, what is gone has none
AgesAfterRemoval(n, gone) ==
    [x \in Nodes |->
        IF x \in gone THEN 0
        ELSE IF Len(n) > 1 /\ x = SubSeq(n, 1, Len(n) - 1) THEN 0
        ELSE mtimeAge[x]]

\* ImageCleanup.start
CleanupStart ==
    /\ wpc = "none"
    /\ IF enabled /\ folders # <<>>
       THEN /\ crunning' = TRUE
            /\ stop_event' = FALSE
            /\ wpc' = "first"
       ELSE /\ wpc' = "off"
            /\ UNCHANGED <<crunning, stop_event>>
    /\ UNCHANGED <<mainVars, imgVars, escVars, newVars, onDisk, mtimeAge, enabled,
                   folders, items_to_delete, sweeps, intervals, sweepDisk,
                   sweepAge, doneLog, disturbed>>

\* ImageCleanup.stop
CleanupStop ==
    /\ crunning
    /\ crunning' = FALSE
    /\ stop_event' = TRUE
    /\ UNCHANGED <<mainVars, imgVars, escVars, newVars, onDisk, mtimeAge, enabled,
                   folders, wpc, items_to_delete, sweeps, intervals, sweepDisk,
                   sweepAge, doneLog, disturbed>>

\* _run_cleanup / _cleanup_folder, first part: the items older than the maximum
\* age are collected and sorted
WorkerCollect ==
    /\ wpc \in {"first", "run"}
    /\ wpc' = "del"
    /\ sweeps' = sweeps + 1
    /\ \E order \in DeletionOrders({n \in onDisk : Expired(mtimeAge[n])}) :
          items_to_delete' = order
    /\ sweepDisk' = onDisk
    /\ sweepAge' = mtimeAge
    /\ doneLog' = <<>>
    /\ disturbed' = {}
    /\ UNCHANGED <<mainVars, imgVars, escVars, newVars, onDisk, mtimeAge, enabled,
                   folders, crunning, stop_event, intervals>>

\* _cleanup_folder, the deletion loop: shutil.rmtree for a directory, unlink for
\* a file, both only if the path still exists
WorkerDelete ==
    /\ wpc = "del"
    /\ items_to_delete # <<>>
    /\ items_to_delete' = Tail(items_to_delete)
    /\ LET item_path == Head(items_to_delete)
           gone == {item_path} \cup Below(item_path)
       IN  IF item_path \in onDisk
           THEN /\ onDisk' = onDisk \ gone
                /\ mtimeAge' = AgesAfterRemoval(item_path, gone)
                /\ doneLog' = Append(doneLog, [node |-> item_path, did |-> "deleted"])
           ELSE /\ doneLog' = Append(doneLog, [node |-> item_path, did |-> "skipped"])
                /\ UNCHANGED <<onDisk, mtimeAge>>
    /\ UNCHANGED <<mainVars, imgVars, escVars, newVars, enabled, folders, crunning,
                   stop_event, wpc, sweeps, intervals, sweepDisk, sweepAge,
                   disturbed>>

\* _cleanup_folder returns, _run_cleanup returns
WorkerSweepEnd ==
    /\ wpc = "del"
    /\ items_to_delete = <<>>
    /\ wpc' = "loop"
    /\ UNCHANGED <<mainVars, imgVars, escVars, newVars, onDisk, mtimeAge, enabled,
                   folders, crunning, stop_event, items_to_delete, sweeps,
                   intervals, sweepDisk, sweepAge, doneLog, disturbed>>

\* _cleanup_worker: while self.running
WorkerLoop ==
    /\ wpc = "loop"
    /\ wpc' = IF crunning THEN "wait" ELSE "done"
    /\ UNCHANGED <<mainVars, imgVars, escVars, newVars, onDisk, mtimeAge, enabled,
                   folders, crunning, stop_event, items_to_delete, sweeps,
                   intervals, sweepDisk, sweepAge, doneLog, disturbed>>

\* _cleanup_worker: stop_event.wait(timeout) times out after the interval
WorkerWaitTimeout ==
    /\ wpc = "wait"
    /\ ~stop_event
    /\ intervals < MaxSweeps
    /\ intervals' = intervals + 1
    /\ wpc' = "chk"
    /\ UNCHANGED <<mainVars, imgVars, escVars, newVars, onDisk, mtimeAge, enabled,
                   folders, crunning, stop_event, items_to_delete, sweeps,
                   sweepDisk, sweepAge, doneLog, disturbed>>

\* _cleanup_worker: stop_event.wait returns True, break
WorkerWaitStopped ==
    /\ wpc = "wait"
    /\ stop_event
    /\ wpc' = "done"
    /\ UNCHANGED <<mainVars, imgVars, escVars, newVars, onDisk, mtimeAge, enabled,
                   folders, crunning, stop_event, items_to_delete, sweeps,
                   intervals, sweepDisk, sweepAge, doneLog, disturbed>>

\* _cleanup_worker: if self.running: self._run_cleanup()
WorkerCheckRunning ==
    /\ wpc = "chk"
    /\ wpc' = IF StillRunning(crunning) THEN "run" ELSE "loop"
    /\ UNCHANGED <<mainVars, imgVars, escVars, newVars, onDisk, mtimeAge, enabled,
                   folders, crunning, stop_event, items_to_delete, sweeps,
                   intervals, sweepDisk, sweepAge, doneLog, disturbed>>

\* time passes while the worker waits: every modification time gets older (the
\* ages saturate one tick above the maximum age)
CleanTick ==
    /\ wpc = "wait"
    /\ \E n \in onDisk : mtimeAge[n] <= MaxAgeTicks
    /\ mtimeAge' = [n \in Nodes |->
                       IF n \in onDisk /\ mtimeAge[n] <= MaxAgeTicks
                       THEN mtimeAge[n] + 1 ELSE mtimeAge[n]]
    /\ UNCHANGED <<mainVars, imgVars, escVars, newVars, onDisk, enabled, folders,
                   crunning, stop_event, wpc, items_to_delete, sweeps,
                   intervals, sweepDisk, sweepAge, doneLog, disturbed>>

\* during a sweep somebody else removes a path that the sweep still has on its
\* list (the session reaper's rmtree, the standalone cleanup, the operator)
ExternalRemove(n) ==
    /\ wpc = "del"
    /\ disturbed = {}
    /\ n \in onDisk
    /\ \E i \in 1..Len(items_to_delete) : items_to_delete[i] = n
    /\ onDisk' = onDisk \ ({n} \cup Below(n))
    /\ mtimeAge' = AgesAfterRemoval(n, {n} \cup Below(n))
    /\ disturbed' = onDisk \cap ({n} \cup Below(n))
    /\ UNCHANGED <<mainVars, imgVars, escVars, newVars, enabled, folders, crunning,
                   stop_event, wpc, items_to_delete, sweeps, intervals,
                   sweepDisk, sweepAge, doneLog>>

\* the steps of the thread of _cleanup_worker
CleanWorkerStep ==
    \/ WorkerCollect
    \/ WorkerDelete
    \/ WorkerSweepEnd
    \/ WorkerLoop
    \/ WorkerWaitTimeout
    \/ WorkerWaitStopped
    \/ WorkerCheckRunning

\* a folder with some tree of any ages, and any configuration of the cleanup
InitCleanup ==
    /\ threshold = 1
    /\ MainIdle
    /\ ImgIdle
    /\ EscIdle
    /\ NewIdle
    /\ onDisk \in Trees
    /\ mtimeAge \in [Nodes -> 0..(MaxAgeTicks + 1)]
    /\ \A n \in Nodes \ onDisk : mtimeAge[n] = 0
    /\ enabled \in BOOLEAN
    /\ folders \in {<<>>, <<"root">>}
    /\ crunning = FALSE
    /\ stop_event = FALSE
    /\ wpc = "none"
    /\ items_to_delete = <<>>
    /\ sweeps = 0
    /\ intervals = 0
    /\ sweepDisk = {}
    /\ sweepAge = [n \in Nodes |-> 0]
    /\ doneLog = <<>>
    /\ disturbed = {}

NextCleanup ==
    \/ CleanupStart
    \/ CleanupStop
    \/ CleanWorkerStep
    \/ CleanTick
    \/ \E n \in Nodes : ExternalRemove(n)

\* the worker thread keeps running, and a wait that is not cut short times out
SpecCleanup == InitCleanup /\ [][NextCleanup]_vars /\ WF_vars(CleanWorkerStep)

\* ------------------------------------------------------------ claim C12
\* C12: when a sweep of the folder has ended (and nobody else removed anything
\* meanwhile), every descendant whose modification age exceeded the maximum age
\* when the sweep collected is gone, and every descendant whose age did not
\* exceed it still exists, at any depth.
C12_SweepDeletesExactlyTheOld ==
    (wpc = "loop" /\ disturbed = {}) =>
       \A n \in sweepDisk :
          /\ sweepAge[n] > MaxAgeTicks => n \notin onDisk
          /\ sweepAge[n] <= MaxAgeTicks => n \in onDisk

\* ------------------------------------------------------------ claim C13
\* the items the current sweep selected, processed ones first
SweepOrder == [i \in 1..Len(doneLog) |-> doneLog[i].node] \o items_to_delete
Selected == {n \in sweepDisk : Expired(sweepAge[n])}

C13_Step ==
    (wpc = "del" /\ items_to_delete # <<>> /\ items_to_delete' = Tail(items_to_delete)
       /\ Head(items_to_delete) \notin onDisk) =>
          /\ onDisk' = onDisk
          /\ wpc' = "del"
          /\ doneLog' = Append(doneLog, [node |-> Head(items_to_delete), did |-> "skipped"])

\* C13: a sweep takes its selected items deepest first, so that no item comes
\* after a selected directory that contains it; an item that is gone when its
\* turn comes is skipped, and the sweep goes on to its end, where every selected
\* item has had its turn.
C13_DeepestFirstAndSkipsRemoved ==
    /\ [](wpc = "del" =>
            \A i, j \in 1..Len(SweepOrder) :
               i < j => /\ Len(SweepOrder[i]) >= Len(SweepOrder[j])
                        /\ ~IsAncestor(SweepOrder[i], SweepOrder[j]))
    /\ [][C13_Step]_vars
    /\ [](wpc = "loop" => {doneLog[i].node : i \in 1..Len(doneLog)} = Selected)
    /\ (wpc = "del") ~> (wpc = "loop")

\* a sweep has ended in which one selected item was gone at its turn and was
\* skipped, and a selected directory above it in the tree was deleted afterwards
C13_Witness ==
    /\ wpc = "loop"
    /\ \E i, j \in 1..Len(doneLog) :
          /\ i < j
          /\ doneLog[i].did = "skipped"
          /\ doneLog[j].did = "deleted"
          /\ IsAncestor(doneLog[j].node, doneLog[i].node)

\* ------------------------------------------------------------ claim C14
C14_Step ==
    /\ sweeps' # sweeps =>
          /\ sweeps' = sweeps + 1
          /\ \/ wpc = "first" /\ sweeps = 0 /\ intervals = 0
             \/ wpc = "run" /\ sweeps = intervals
    /\ (wpc = "first" /\ wpc' # wpc) => sweeps' = 1
    /\ (wpc = "run" /\ wpc' # wpc) => sweeps' = intervals + 1
    /\ (wpc = "chk" /\ ~crunning /\ wpc' # wpc) => wpc' = "loop"
    /\ (wpc = "loop" /\ ~crunning /\ wpc' # wpc) => wpc' = "done"
    /\ (wpc = "wait" /\ stop_event /\ wpc' # wpc) => wpc' = "done"
    /\ wpc = "done" => (wpc' = "done" /\ sweeps' = sweeps)
    /\ wpc = "off" => (wpc' = "off" /\ sweeps' = sweeps)

\* C14: a cleanup that is enabled and has a folder starts a worker whose first
\* step is a sweep; after every wait that times out it sweeps once more, unless
\* stop() cleared the flag first; once the worker has seen the cleared flag or
\* the set stop event it goes to its end without starting a sweep; a cleanup
\* that is disabled or has no folder never sweeps.
C14_SweepAtStartAndEachInterval ==
    /\ [][C14_Step]_vars
    /\ [](sweeps <= intervals + 1)
    /\ [](wpc \in {"first", "run", "del", "loop", "wait", "chk", "done"}
            => (enabled /\ folders # <<>>))
    /\ (wpc = "first") ~> (sweeps >= 1)
    /\ \A k \in 1..MaxSweeps :
          (wpc = "chk" /\ intervals = k /\ crunning) ~> (sweeps = k + 1 \/ ~crunning)

\* the worker swept at start and after the first interval; stop() came during
\* the second wait's timeout, and the worker ended without a third sweep
C14_Witness ==
    /\ wpc = "done"
    /\ sweeps = 2
    /\ intervals = 2
    /\ ~crunning

\* ------------------------- one ParentFolderSubfolderHandler in detail
\* (the session folder Session1 was pasted without a subfolder)
SubObserver == <<Session1, "sub">>

\* a second test that lets everybody through
NotFoundYetAlways(flag) == TRUE
\* if not self.child_folder_found, under self.lock
NotFoundYet(flag) == flag # "yes"

\* self.child_folder_found = True and the call of _watch_child_folder_for_images
\* with the directory dir, both under the lock of the handler
Escalate(dir) ==
    /\ child_folder_found' = [child_folder_found EXCEPT ![Session1] = "yes"]
    /\ escalations' = Append(escalations, dir)
    /\ WatchChildFolderForImages(Session1)

\* _start_watching_folder found no subfolder: the handler is built, and its
\* constructor starts the thread of _periodic_check
EscBuildHandler ==
    /\ estage = "none"
    /\ Session1 \in folderOnDisk
    /\ children = <<>>
    /\ estage' = "handler"
    /\ started' = started \cup {Session1}
    /\ child_folder_found' = [child_folder_found EXCEPT ![Session1] = "no"]
    /\ ppc' = "loop"
    /\ UNCHANGED <<admVars, running, watched_folders, observers, processed_files,
                   diskVars, image_queue, thrVars, sinkVars, colVars, reapVars,
                   histVars, imgVars, cleanVars, newVars, children, evq, epc, ecur,
                   checks, pfirst, escalations, delivered>>

\* _start_watching_folder: observer.schedule(subfolder_handler, ...), observer.start()
EscStartObserver ==
    /\ estage = "handler"
    /\ estage' = "observing"
    /\ observers' = [observers EXCEPT ![SubObserver] = "started"]
    /\ UNCHANGED <<admVars, running, watched_folders, child_folder_found,
                   processed_files, started, diskVars, image_queue, thrVars,
                   sinkVars, colVars, reapVars, histVars, imgVars, cleanVars, newVars,
                   children, evq, epc, ecur, ppc, checks, pfirst, escalations,
                   delivered>>

\* _start_watching_folder: self.watched_folders[parent_folder_path] = (observer,
\* subfolder_handler, created_time)
EscRegister ==
    /\ estage = "observing"
    /\ estage' = "registered"
    /\ watched_folders' =
         RegPut(watched_folders, [path |-> Session1, kind |-> "sub", age |-> 0])
    /\ UNCHANGED <<admVars, running, observers, child_folder_found,
                   processed_files, started, diskVars, image_queue, thrVars,
                   sinkVars, colVars, reapVars, histVars, imgVars, cleanVars, newVars,
                   children, evq, epc, ecur, ppc, checks, pfirst, escalations,
                   delivered>>

\* a directory appears in the session folder, created there or moved there; the
\* observer, if it runs, queues the event, unless the event is missed (the names
\* are interchangeable: c1 is the one that appears first)
ChildAppears(c, kind) ==
    /\ estage # "none"
    /\ c \notin {children[i] : i \in 1..Len(children)}
    /\ c = ChildC2 => children # <<>>
    /\ children' = Append(children, c)
    /\ childOnDisk' = childOnDisk \cup {Session1}
    /\ \E seen \in BOOLEAN :
          evq' = IF seen /\ observers[SubObserver] = "started"
                 THEN Append(evq, [kind |-> kind, dir |-> c])
                 ELSE evq
    /\ UNCHANGED <<admVars, regVars, folderOnDisk, inputFiles, image_queue,
                   thrVars, sinkVars, colVars, reapVars, histVars, imgVars,
                   cleanVars, newVars, estage, epc, ecur, ppc, checks, pfirst,
                   escalations, delivered>>

\* on_created / on_moved, first part: a directory event (event.is_directory) is
\* taken; with the flag already set (read under the lock) the callback returns
SubfolderEventCheck ==
    /\ epc = "idle"
    /\ evq # <<>>
    /\ Head(evq).dir \in ChildDirs
    /\ observers[SubObserver] = "started"
    /\ evq' = Tail(evq)
    /\ delivered' = Append(delivered, Head(evq).dir)
    /\ IF child_folder_found[Session1] = "yes"
       THEN UNCHANGED <<epc, ecur>>
       ELSE /\ epc' = "path"
            /\ ecur' = Head(evq)
    /\ UNCHANGED <<admVars, regVars, diskVars, image_queue, thrVars, sinkVars,
                   colVars, reapVars, histVars, imgVars, cleanVars, newVars, children,
                   estage, ppc, checks, pfirst, escalations>>

\* on_created / on_moved, second part: the path is a direct child; under the
\* lock the flag is tested again, set, and the image watch is started
SubfolderEventEscalate ==
    /\ epc = "path"
    /\ epc' = "idle"
    /\ ecur' = None
    /\ IF NotFoundYet(child_folder_found[Session1])
       THEN Escalate(ecur.dir)
       ELSE UNCHANGED <<child_folder_found, escalations, observers,
                        processed_files, image_queue, watched_folders>>
    /\ UNCHANGED <<admVars, running, started, diskVars, thrVars, sinkVars,
                   colVars, reapVars, histVars, imgVars, cleanVars, newVars, children,
                   evq, estage, ppc, checks, pfirst, delivered>>

\* _periodic_check: while checks < max_checks and not self.child_folder_found
\* (the flag read without the lock)
PeriodicLoopTest ==
    /\ ppc = "loop"
    /\ ppc' = IF checks < MaxChecks /\ child_folder_found[Session1] # "yes"
              THEN "sleep" ELSE "done"
    /\ UNCHANGED <<mainVars, imgVars, cleanVars, newVars, children, evq, estage, epc,
                   ecur, checks, pfirst, escalations, delivered>>

\* _periodic_check: time.sleep, checks += 1, and the flag read under the lock
PeriodicWake ==
    /\ ppc = "sleep"
    /\ checks' = checks + 1
    /\ ppc' = IF child_folder_found[Session1] = "yes" THEN "done" ELSE "scan"
    /\ UNCHANGED <<mainVars, imgVars, cleanVars, newVars, children, evq, estage, epc,
                   ecur, pfirst, escalations, delivered>>

\* _periodic_check: the parent exists, its subfolders are listed; subfolders[0]
\* is whichever directory iterdir() yields first
PeriodicScan ==
    /\ ppc = "scan"
    /\ IF Session1 \notin folderOnDisk
       THEN /\ ppc' = "done"
            /\ UNCHANGED pfirst
       ELSE IF children = <<>>
            THEN /\ ppc' = "loop"
                 /\ UNCHANGED pfirst
            ELSE /\ ppc' = "lock"
                 /\ \E i \in 1..Len(children) : pfirst' = children[i]
    /\ UNCHANGED <<mainVars, imgVars, cleanVars, newVars, children, evq, estage, epc,
                   ecur, checks, escalations, delivered>>

\* _periodic_check: under the lock the flag is tested again, set, and the image
\* watch is started on first_subfolder
PeriodicEscalate ==
    /\ ppc = "lock"
    /\ pfirst' = None
    /\ IF NotFoundYet(child_folder_found[Session1])
       THEN /\ Escalate(pfirst)
            /\ ppc' = "done"
       ELSE /\ ppc' = "loop"
            /\ UNCHANGED <<child_folder_found, escalations, observers,
                           processed_files, image_queue, watched_folders>>
    /\ UNCHANGED <<admVars, running, started, diskVars, thrVars, sinkVars,
                   colVars, reapVars, histVars, imgVars, cleanVars, newVars, children,
                   evq, estage, epc, ecur, checks, delivered>>

\* the session folder of Session1 lies under the watch root, without a subfolder
InitEscalate ==
    /\ threshold = 1
    /\ counters = EmptyMap
    /\ pending_queues = EmptyMap
    /\ running = TRUE
    /\ watched_folders = <<>>
    /\ observers = [o \in ObserverIds |-> "none"]
    /\ child_folder_found = [s \in SessionNames |-> "none"]
    /\ processed_files = [s \in SessionNames |-> {}]
    /\ started = {}
    /\ folderOnDisk = {Session1}
    /\ childOnDisk = {}
    /\ inputFiles = {}
    /\ image_queue = <<>>
    /\ pc = [t \in Drainers |-> "idle"]
    /\ item = [t \in Drainers |-> NoItem]
    /\ ret = [t \in Drainers |-> "main"]
    /\ dnames = [t \in Drainers |-> <<>>]
    /\ dcur = [t \in Drainers |-> None]
    /\ sinkFiles = {}
    /\ destFiles = {}
    /\ processor_queue = <<>>
    /\ outputFiles = {}
    /\ cpc = "idle"
    /\ cfile = None
    /\ cfolder = None
    /\ rpc = "sleep"
    /\ rlist = <<>>
    /\ rcur = None
    /\ robs = "none"
    /\ dispatchLog = <<>>
    /\ pendLog = [s \in SessionNames |-> <<>>]
    /\ failLog = <<>>
    /\ lateReturns = {}
    /\ lostItems = {}
    /\ ImgIdle
    /\ EscIdle
    /\ CleanIdle
    /\ NewIdle

NextEscalate ==
    \/ EscBuildHandler
    \/ EscStartObserver
    \/ EscRegister
    \/ \E c \in ChildDirs : \E kind \in {"created", "moved"} : ChildAppears(c, kind)
    \/ SubfolderEventCheck
    \/ SubfolderEventEscalate
    \/ PeriodicLoopTest
    \/ PeriodicWake
    \/ PeriodicScan
    \/ PeriodicEscalate

SpecEscalate == InitEscalate /\ [][NextEscalate]_vars

\* ------------------------------------------------------------ claim C20
C20_Step ==
    child_folder_found[Session1] = "yes" =>
       /\ escalations' = escalations
       /\ child_folder_found'[Session1] = "yes"
       /\ observers'[<<Session1, "img">>] = observers[<<Session1, "img">>]
       /\ processed_files' = processed_files

ItemsInFlight ==
    ({image_queue[i] : i \in 1..Len(image_queue)}
     \cup ({item[t] : t \in Drainers} \ {NoItem})
     \cup UNION {{pending_queues[n][i] : i \in 1..Len(pending_queues[n])} :
                   n \in DOMAIN pending_queues}
     \cup {dispatchLog[i] : i \in 1..Len(dispatchLog)})

\* C21: every image of an image watch, whether the watch started on a subfolder
\* that was there or by escalation, is queued, admission-checked, held back,
\* counted and renamed under the name of the parent session folder, never under
\* the name of the child directory that is watched.
C21_ParentNameEverywhere ==
    /\ \A it \in ItemsInFlight : it.name \in started /\ it.name \notin ChildDirs
    /\ DOMAIN counters \subseteq started
    /\ DOMAIN pending_queues \subseteq started
    /\ \A n \in sinkFiles : \E s \in started : \E f \in ImageNames : n = NewName(s, f)

\* Session1 escalated to its child directory; a.jpg was admitted, counted and
\* handed over as S1___a, b.jpg is held back under S1
C21_Witness ==
    /\ child_folder_found[Session1] = "yes"
    /\ dispatchLog = <<[name |-> Session1, img |-> ImgA]>>
    /\ NewName(Session1, ImgA) \in sinkFiles
    /\ Session1 \in DOMAIN counters
    /\ counters[Session1] = 1
    /\ has_pending(pending_queues, Session1)
    /\ pending_queues[Session1][1] = [name |-> Session1, img |-> ImgB]

\* -------------------------------- FolderCreatedHandler (the watch root) in detail
\* entries of the watch root: two session folders, a link to the first one, and
\* a file that is no directory
RootLink == <<"l">>
RootFile == <<"t">>
RootEntries == {Session1, Session2, RootLink, RootFile}
\* the folders that can be keys of the handler's maps
RootFolders == {Session1, Session2}

\* p.is_dir(), which follows links
RootIsDir(e, disk) ==
    IF e = RootLink THEN Session1 \in disk ELSE e # RootFile

\* str(Path(p).resolve()): a link is replaced by what it points to
RootResolve(e) == IF e = RootLink THEN Session1 ELSE e

\* the resolved direct child directories that iterdir() yields
ChildFolders(disk) == {RootResolve(e) : e \in {x \in disk : RootIsDir(x, disk)}}

\* an initialisation that marks nothing
no_existing_folders(disk) == {}
\* _initialize_existing_folders: existing_folders
initial_existing_folders(disk) == ChildFolders(disk)

PendingFolderPaths == {pending_folders[i].path : i \in 1..Len(pending_folders)}

\* a check that finds nothing
no_new_folders(current_folders, processed, pending) == {}
\* _check_for_new_folders, under the lock: the folders that are stamped
new_folders(current_folders, processed, pending) ==
    (current_folders \ processed) \ pending

\* a test that lets every folder be stamped
may_stamp_always(folder_path, processed, pending) == TRUE
\* on_created / on_moved, under the lock: folder_path not in processed_folders
\* and folder_path not in pending_folders
may_stamp_folder(folder_path, processed, pending) ==
    folder_path \notin processed /\ folder_path \notin pending

\* self.pending_folders[folder_path] = time.time() for new keys (quiet is
\* history: the time since the last event or listing that named the path)
StampAll(pending, order) ==
    pending \o [i \in 1..Len(order) |->
                   [path |-> order[i], age |-> 0, quiet |-> 0]]

\* history only: an event names the path; its timestamp is not touched
Touch(pending, path) ==
    [i \in 1..Len(pending) |->
        IF pending[i].path = path THEN [pending[i] EXCEPT !.quiet = 0]
        ELSE pending[i]]

\* FolderWatcher.__init__: FolderCreatedHandler(...) marks the folders that are
\* there and starts its two threads
FolderCreatedHandlerInit ==
    /\ fstate = "new"
    /\ fstate' = "built"
    /\ existing_folders' = ChildFolders(rootDisk)
    /\ processed_folders' = processed_folders \cup initial_existing_folders(rootDisk)
    /\ fdpc' = "sleep"
    /\ fppc' = "sleep"
    /\ UNCHANGED <<mainVars, imgVars, escVars, cleanVars, retVars, directFiles,
                   stopCalls, lockVars, recreated,
                   rootDisk, pending_folders, folder_queue, fdlag, delayed>>

\* FolderWatcher.start: self.observer.start()
RootObserverStart ==
    /\ fstate = "built"
    /\ fstate' = "watching"
    /\ UNCHANGED <<mainVars, imgVars, escVars, cleanVars, retVars, directFiles,
                   stopCalls, lockVars, recreated,
                   rootDisk, existing_folders, processed_folders,
                   pending_folders, folder_queue, fdpc, fdlag, fppc, delayed>>

\* FolderWatcher.stop: self.observer.stop(), self.observer.join(); stopping a
\* stopped observer changes nothing
RootObserverStop ==
    /\ fstate \in {"watching", "stopped"}
    /\ fstate' = "stopped"
    /\ UNCHANGED <<mainVars, imgVars, escVars, cleanVars, retVars, directFiles,
                   stopCalls, lockVars, recreated,
                   rootDisk, existing_folders, processed_folders,
                   pending_folders, folder_queue, fdpc, fdlag, fppc, delayed>>

\* an entry appears in the watch root after the handler was built (the link
\* only next to the folder it points to)
RootCreate(e) ==
    /\ fstate \in {"built", "watching", "stopped"}
    /\ e \notin rootDisk
    /\ e = RootLink => Session1 \in rootDisk
    /\ rootDisk' = rootDisk \cup {e}
    /\ UNCHANGED <<mainVars, imgVars, escVars, cleanVars, retVars, directFiles,
                   stopCalls, lockVars, recreated,
                   fstate, existing_folders, processed_folders,
                   pending_folders, folder_queue, fdpc, fdlag, fppc, delayed>>

\* an entry of the watch root is deleted (by the reaper, or by somebody else)
RootRemove(e) ==
    /\ fstate \in {"built", "watching", "stopped"}
    /\ e \in rootDisk
    /\ rootDisk' = rootDisk \ {e}
    /\ UNCHANGED <<mainVars, imgVars, escVars, cleanVars, retVars, directFiles,
                   stopCalls, lockVars, recreated,
                   fstate, existing_folders, processed_folders,
                   pending_folders, folder_queue, fdpc, fdlag, fppc, delayed>>

\* the body that on_created and on_moved share: a directory event for the entry
\* e; the resolved path is stamped unless it is processed or pending
StampFolder(e) ==
    /\ fstate = "watching"
    /\ e \in rootDisk
    /\ pending_folders' =
         IF /\ RootIsDir(e, rootDisk)
            /\ may_stamp_folder(RootResolve(e), processed_folders,
                                PendingFolderPaths)
         THEN StampAll(pending_folders, <<RootResolve(e)>>)
         ELSE IF RootIsDir(e, rootDisk)
              THEN Touch(pending_folders, RootResolve(e))
              ELSE pending_folders
    /\ UNCHANGED <<mainVars, imgVars, escVars, cleanVars, retVars, directFiles,
                   stopCalls, lockVars, recreated,
                   rootDisk, fstate, existing_folders, processed_folders,
                   folder_queue, fdpc, fdlag, fppc, delayed>>

\* FolderCreatedHandler.on_created
RootOnCreated(e) == StampFolder(e)

\* FolderCreatedHandler.on_moved (the destination path of the move)
RootOnMoved(e) == StampFolder(e)

\* FolderCreatedHandler.on_modified for the watch root itself: a thread is
\* started that will run _delayed_check
RootOnModified ==
    /\ fstate = "watching"
    /\ delayed < MaxDelayed
    /\ delayed' = delayed + 1
    /\ UNCHANGED <<mainVars, imgVars, escVars, cleanVars, retVars, directFiles,
                   stopCalls, lockVars, recreated,
                   rootDisk, fstate, existing_folders, processed_folders,
                   pending_folders, folder_queue, fdpc, fdlag, fppc>>

\* _check_for_new_folders: the root is listed, and under the lock every listed
\* folder that is neither processed nor pending is stamped
CheckForNewFolders ==
    \E order \in Orders(new_folders(ChildFolders(rootDisk), processed_folders,
                                    PendingFolderPaths)) :
       pending_folders' = StampAll(pending_folders, order)

\* _delayed_check: after the sleep, _check_for_new_folders
DelayedCheck ==
    /\ delayed > 0
    /\ delayed' = delayed - 1
    /\ CheckForNewFolders
    /\ UNCHANGED <<mainVars, imgVars, escVars, cleanVars, retVars, directFiles,
                   stopCalls, lockVars, recreated,
                   rootDisk, fstate, existing_folders, processed_folders,
                   folder_queue, fdpc, fdlag, fppc>>

\* _periodic_check: while True: sleep(3), _check_for_new_folders
PeriodicCheck ==
    /\ fppc = "sleep"
    /\ CheckForNewFolders
    /\ UNCHANGED <<mainVars, imgVars, escVars, cleanVars, retVars, directFiles,
                   stopCalls, lockVars, recreated,
                   rootDisk, fstate, existing_folders, processed_folders,
                   folder_queue, fdpc, fdlag, fppc, delayed>>

\* time passes for the root handler
RootClockTick ==
    /\ fstate \in {"built", "watching", "stopped"}
    /\ fdpc = "lock" => fdlag < MaxLag
    /\ pending_folders' =
         [i \in 1..Len(pending_folders) |->
            [pending_folders[i] EXCEPT
               !.age = IF @ < DebounceTicks + MaxLag THEN @ + 1 ELSE @,
               !.quiet = IF @ < DebounceTicks + MaxLag THEN @ + 1 ELSE @]]
    /\ fdlag' = IF fdpc = "lock" THEN fdlag + 1 ELSE fdlag
    /\ UNCHANGED <<mainVars, imgVars, escVars, cleanVars, retVars, directFiles,
                   stopCalls, lockVars, recreated,
                   rootDisk, fstate, existing_folders, processed_folders,
                   folder_queue, fdpc, fppc, delayed>>

\* _debounce_worker of the root handler: while True: sleep(0.5),
\* current_time = time.time(), read before the lock is taken
RootDebounceRead ==
    /\ fdpc = "sleep"
    /\ fdpc' = "lock"
    /\ fdlag' = 0
    /\ UNCHANGED <<mainVars, imgVars, escVars, cleanVars, retVars, directFiles,
                   stopCalls, lockVars, recreated,
                   rootDisk, fstate, existing_folders, processed_folders,
                   pending_folders, folder_queue, fppc, delayed>>

\* a sweep that queues folders and forgets that it did
mark_none(processed, paths) == processed
\* self.processed_folders.add(folder_path) for each folder that is queued
mark_processed(processed, paths) == processed \cup paths

\* _debounce_worker of the root handler, under the lock and after it: the ready
\* folders leave pending_folders; those not processed are marked and queued
RootDebounceSweep ==
    /\ fdpc = "lock"
    /\ fdpc' = "sleep"
    /\ fdlag' = 0
    /\ LET IsReady(e) == DebounceReady(e.age, fdlag)
           NotReady(e) == ~DebounceReady(e.age, fdlag)
           IsNew(e) == e.path \notin processed_folders
           to_process == SelectSeq(SelectSeq(pending_folders, IsReady), IsNew)
           folders_to_process == [i \in 1..Len(to_process) |-> to_process[i].path]
       IN  /\ pending_folders' = SelectSeq(pending_folders, NotReady)
           /\ processed_folders' =
                mark_processed(processed_folders,
                     {folders_to_process[i] : i \in 1..Len(folders_to_process)})
           /\ folder_queue' = folder_queue \o folders_to_process
    /\ UNCHANGED <<mainVars, imgVars, escVars, cleanVars, retVars, directFiles,
                   stopCalls, lockVars, recreated,
                   rootDisk, fstate, existing_folders, fppc, delayed>>

\* the watch root holds any of the entries when the handler is built
InitRoot ==
    /\ threshold = 1
    /\ MainIdle
    /\ ImgIdle
    /\ EscIdle
    /\ CleanIdle
    /\ RetIdle
    /\ directFiles = {}
    /\ stopCalls = [c \in Components |-> 0]
    /\ LocksIdle
    /\ recreated = {}
    /\ rootDisk \in {d \in SUBSET RootEntries : RootLink \in d => Session1 \in d}
    /\ fstate = "new"
    /\ existing_folders = {}
    /\ processed_folders = {}
    /\ pending_folders = <<>>
    /\ folder_queue = <<>>
    /\ fdpc = "none"
    /\ fdlag = 0
    /\ fppc = "none"
    /\ delayed = 0

NextRoot ==
    \/ FolderCreatedHandlerInit
    \/ RootObserverStart
    \/ RootObserverStop
    \/ \E e \in RootEntries : RootCreate(e)
    \/ \E e \in RootEntries : RootRemove(e)
    \/ \E e \in RootEntries : RootOnCreated(e)
    \/ \E e \in RootEntries : RootOnMoved(e)
    \/ RootOnModified
    \/ DelayedCheck
    \/ PeriodicCheck
    \/ RootClockTick
    \/ RootDebounceRead
    \/ RootDebounceSweep

\* the handler is built, the clock advances, and its two loops keep looping
RootFairness ==
    /\ WF_vars(FolderCreatedHandlerInit)
    /\ WF_vars(RootClockTick)
    /\ WF_vars(PeriodicCheck)
    /\ WF_vars(RootDebounceRead)
    /\ WF_vars(RootDebounceSweep)

SpecRoot == InitRoot /\ [][NextRoot]_vars /\ RootFairness

\* ------------------------------------------------------------ claim C22
QueuedFolders == {folder_queue[i] : i \in 1..Len(folder_queue)}

\* C22: a direct child folder of the watch root that exists when the root
\* handler is built is never put on the folder queue, whatever create and move
\* events, modify events, delayed checks and periodic checks follow.
C22_ExistingFolderNeverQueued ==
    \A d \in existing_folders : d \notin QueuedFolders

\* Session1 was there at the start; later a link to it appeared, and the new
\* folder Session2 went through the queue while Session1 did not
C22_Witness ==
    /\ Session1 \in existing_folders
    /\ Session1 \in rootDisk
    /\ RootLink \in rootDisk
    /\ RootLink \notin existing_folders
    /\ folder_queue = <<Session2>>
    /\ pending_folders = <<>>

\* ------------------------------------------------------------ claim C23
\* the folder d is a child folder of the root that the handler did not find
\* when it was built
NewOnDisk(d) ==
    /\ fstate # "new"
    /\ d \in ChildFolders(rootDisk)
    /\ d \notin existing_folders

\* C23: a new direct child folder of the watch root is put on the folder queue
\* by the periodic listing of the root even if none of its events is ever
\* delivered, unless it stops existing first; and no folder is put there twice.
C23_NewFolderQueuedOnce ==
    /\ [](\A d \in RootFolders : Occurrences(folder_queue, d) <= 1)
    /\ \A d \in RootFolders :
          NewOnDisk(d) ~> (d \in QueuedFolders \/ d \notin ChildFolders(rootDisk))

\* the main observer was never started, so no event and no delayed check can
\* have happened: Session2 was found by the periodic check and queued
C23_Witness ==
    /\ fstate = "built"
    /\ Session2 \notin existing_folders
    /\ Session2 \in rootDisk
    /\ folder_queue = <<Session2>>
    /\ Session2 \in processed_folders

\* ---------------------------- files that arrive while an image handler watches
\* an entry appears in the watched image folder after the handler was built;
\* whether an event for it is delivered is up to OnCreated / OnMoved
FileAppears(e) ==
    /\ hstate = "watching"
    /\ e \notin dirEntries
    /\ dirEntries' = dirEntries \cup {e}
    /\ UNCHANGED <<mainVars, escVars, cleanVars, newVars, hstate,
                   pending_files, dpc, dlag, eventCount, listed, putCount,
                   emitCount, emitAge>>

NextArrive ==
    \/ NextWatch
    \/ \E e \in Entries : FileAppears(e)

SpecArrive == InitHandler /\ [][NextArrive]_vars /\ WatchFairness

\* ------------------------------------------------------------ claim C24
\* C24 (as stated): an image file that appears in the watched image directory
\* after the watch started is eventually put on the image queue, even if no
\* event for it is ever delivered.
C24_DroppedImageRelisted ==
    \A e \in Entries :
       (/\ hstate = "watching"
        /\ e \in dirEntries
        /\ IsImageFile(Resolve(e))
        /\ Resolve(e) \notin listed)
          ~> (putCount[Resolve(e)] >= 1)

\* ------------------------------ image files directly in the session folder
\* an image file is placed in the session folder of Session1 itself; the
\* observer of the folder, if it runs, queues the event unless it is missed
PlaceDirectImage(f) ==
    /\ Session1 \in folderOnDisk
    /\ f \notin directFiles
    /\ directFiles' = directFiles \cup {f}
    /\ \E seen \in BOOLEAN :
          evq' = IF seen /\ observers[SubObserver] = "started"
                 THEN Append(evq, [kind |-> "created", dir |-> f])
                 ELSE evq
    /\ UNCHANGED <<mainVars, imgVars, cleanVars, rootVars, retVars, stopCalls,
                   lockVars, recreated,
                   children, estage, epc, ecur, ppc, checks, pfirst,
                   escalations, delivered>>

\* ParentFolderSubfolderHandler.on_created / on_moved for a file:
\* if not event.is_directory: return
SubfolderEventIgnored ==
    /\ epc = "idle"
    /\ evq # <<>>
    /\ Head(evq).dir \notin ChildDirs
    /\ observers[SubObserver] = "started"
    /\ evq' = Tail(evq)
    /\ UNCHANGED <<mainVars, imgVars, cleanVars, newVars, children, estage,
                   epc, ecur, ppc, checks, pfirst, escalations, delivered>>

NextDirect ==
    \/ NextEscalate
    \/ \E f \in MainImages : PlaceDirectImage(f)
    \/ SubfolderEventIgnored

\* _start_watching_folder runs to its end, the observer thread delivers what
\* it has queued, and the check thread keeps going
DirectFairness ==
    /\ WF_vars(EscBuildHandler \/ EscStartObserver \/ EscRegister)
    /\ WF_vars(SubfolderEventCheck \/ SubfolderEventEscalate
                  \/ SubfolderEventIgnored)
    /\ WF_vars(PeriodicLoopTest \/ PeriodicWake \/ PeriodicScan
                  \/ PeriodicEscalate)

SpecDirect == InitEscalate /\ [][NextDirect]_vars /\ DirectFairness

\* ------------------------------------------------------------ claim C25
\* C25 (as stated): an image file placed directly inside the session folder is
\* eventually detected, that is put on the image queue for dispatch.
C25_DirectImageDetected ==
    \A f \in MainImages :
       (f \in directFiles) ~> (\E it \in ItemsInFlight : it.img = f)

\* ------------------------------------------------------------ claim C26
\* the registry entry of the session holds the observer o
Referenced(o) == InReg(o[1]) /\ RegEntry(o[1]).kind = o[2]

\* _start_watching_folder has started the observer o and is about to register it
AboutToRegister(o) == o = SubObserver /\ estage = "observing"

\* C26 (as stated): every started observer of a session is held by the registry
\* (or by the call that is about to register it), so that escalation, the
\* reaper or stop() will stop it; none is left running and unreferenced.
C26_NoObserverOrphaned ==
    \A o \in ObserverIds :
       observers[o] = "started" => (Referenced(o) \/ AboutToRegister(o))

\* ------------------------------ two sessions, one of them at its threshold
\* Session1 and Session2 were pasted with their subfolders and are watched;
\* a.jpg of Session1 was dispatched and counted, the threshold is 1, and no
\* artifact ever returns: Session1 stays at its threshold
InitStarve ==
    /\ HandlerIdle
    /\ threshold = 1
    /\ counters = MapSet(EmptyMap, Session1, 1)
    /\ pending_queues = EmptyMap
    /\ running = TRUE
    /\ watched_folders = <<[path |-> Session1, kind |-> "img", age |-> 0],
                           [path |-> Session2, kind |-> "img", age |-> 0]>>
    /\ observers = [o \in ObserverIds |->
                      IF o \in {<<Session1, "img">>, <<Session2, "img">>}
                      THEN "started" ELSE "none"]
    /\ child_folder_found = [s \in SessionNames |-> "none"]
    /\ processed_files = [s \in SessionNames |->
                            IF s = Session1 THEN {ImgA} ELSE {}]
    /\ started = {Session1, Session2}
    /\ folderOnDisk = {Session1, Session2}
    /\ childOnDisk = {Session1, Session2}
    /\ inputFiles = {}
    /\ image_queue = <<>>
    /\ pc = [d \in Drainers |-> "idle"]
    /\ item = [d \in Drainers |-> NoItem]
    /\ ret = [d \in Drainers |-> "main"]
    /\ dnames = [d \in Drainers |-> <<>>]
    /\ dcur = [d \in Drainers |-> None]
    /\ sinkFiles = {NewName(Session1, ImgA)}
    /\ destFiles = {}
    /\ processor_queue = <<>>
    /\ outputFiles = {<<Session1, ImgA>>}
    /\ cpc = "idle"
    /\ cfile = None
    /\ cfolder = None
    /\ rpc = "sleep"
    /\ rlist = <<>>
    /\ rcur = None
    /\ robs = "none"
    /\ dispatchLog = <<[name |-> Session1, img |-> ImgA]>>
    /\ pendLog = [s \in SessionNames |-> <<>>]
    /\ failLog = <<>>
    /\ lateReturns = {}
    /\ lostItems = {}

\* the images of Session2; its artifacts do return
StarveImages == {ImgA, ImgB}

NextStarve ==
    \/ DropImage(Session1, ImgB)
    \/ \E f \in StarveImages : DropImage(Session2, f)
    \/ \E s \in {Session1, Session2} : \E f \in ImageNames : ImageEmit(s, f)
    \/ DrainerStep
    \/ \E f \in StarveImages : LightroomReturns(NewName(Session2, f))
    \/ CollectorStep

\* the dispatch worker, the pending processor and the collector keep looping,
\* and the sink returns what it was given for Session2
StarveFairness ==
    /\ \A w \in Workers : WF_vars(WorkerSteps(w))
    /\ WF_vars(PendingSteps)
    /\ WF_vars(CollectorStep)
    /\ \A f \in StarveImages : WF_vars(LightroomReturns(NewName(Session2, f)))

SpecStarve == InitStarve /\ [][NextStarve]_vars /\ StarveFairness

\* ------------------------------------------------------------ claim C27
OnImageQueue(it) == \E i \in 1..Len(image_queue) : image_queue[i] = it
HandedOver(it) == \E i \in 1..Len(dispatchLog) : dispatchLog[i] = it
HeldBack(it) == \E i \in 1..Len(pendLog[it.name]) : pendLog[it.name][i] = it.img

RootLoopsEnded == fdpc \in {"none", "done"} /\ fppc \in {"none", "done"}

\* C28 (as stated): once stop() has stopped the main observer, the debounce
\* loop and the periodic-check loop of the root handler eventually terminate.
C28_LoopsEndAfterStop ==
    (fstate = "stopped") ~> RootLoopsEnded

\* ------------------------------------- runs of the return handler in detail
\* the variables that the handler of the return folder leaves alone
retOthers_but_calls ==
    <<admVars, regVars, diskVars, image_queue, thrVars, colVars, reapVars,
      histVars, imgVars, escVars, cleanVars, rootVars, directFiles, sinkFiles,
      outputFiles, lockVars, recreated>>
retOthers == <<retOthers_but_calls, stopCalls>>

\* the keys of LightroomDestinationHandler.pending_files
DestPendingPaths == {dest_pending[i].path : i \in 1..Len(dest_pending)}

\* something writes the file e into the return folder
DestWrite(e) ==
    /\ lstate # "none"
    /\ e \notin destFiles
    /\ destFiles' = destFiles \cup {e}
    /\ UNCHANGED <<retOthers, retVars, processor_queue>>

\* LightroomDestinationHandler.__init__ / _initialize_existing_files: every file
\* of the folder is resolved and marked processed; the debounce thread starts
LightroomDestinationHandlerInit ==
    /\ lstate = "new"
    /\ lstate' = "built"
    /\ dest_processed' = {Resolve(e) : e \in destFiles}
    /\ ldpc' = "sleep"
    /\ UNCHANGED <<retOthers, destFiles, processor_queue, dest_pending, ldlag>>

\* LightroomDestinationWatcher.start: self.observer.start(), self.running = True
ReturnWatcherStart ==
    /\ lstate = "built"
    /\ lstate' = "watching"
    /\ UNCHANGED <<retOthers, destFiles, processor_queue, dest_processed,
                   dest_pending, ldpc, ldlag>>

\* on_created / on_moved, under the lock:
\* if str(file_path.resolve()) not in self.processed_files
dest_may_stamp(path, processed) == path \notin processed

\* the body that on_created and on_moved of the return handler share
DestStamp(e) ==
    /\ lstate = "watching"
    /\ dest_pending' =
         IF IsImageFile(e) /\ dest_may_stamp(Resolve(e), dest_processed)
         THEN RegPut(dest_pending, [path |-> Resolve(e), age |-> 0])
         ELSE dest_pending
    /\ UNCHANGED <<retOthers, destFiles, processor_queue, lstate,
                   dest_processed, ldpc, ldlag>>

\* LightroomDestinationHandler.on_created
DestOnCreated(e) == DestStamp(e)

\* LightroomDestinationHandler.on_moved: a destination outside the return
\* folder is ignored
DestOnMoved(e, inside) ==
    IF inside THEN DestStamp(e)
    ELSE lstate = "watching" /\ UNCHANGED vars

\* time passes for the return handler
DestClockTick ==
    /\ lstate # "none"
    /\ ldpc = "lock" => ldlag < MaxLag
    /\ dest_pending' =
         [i \in 1..Len(dest_pending) |->
            [dest_pending[i] EXCEPT
               !.age = IF @ < DebounceTicks + MaxLag THEN @ + 1 ELSE @]]
    /\ ldlag' = IF ldpc = "lock" THEN ldlag + 1 ELSE ldlag
    /\ UNCHANGED <<retOthers, destFiles, processor_queue, lstate,
                   dest_processed, ldpc>>

\* _debounce_worker of the return handler: current_time = time.time()
DestDebounceRead ==
    /\ ldpc = "sleep"
    /\ ldpc' = "lock"
    /\ ldlag' = 0
    /\ UNCHANGED <<retOthers, destFiles, processor_queue, lstate,
                   dest_processed, dest_pending>>

\* _debounce_worker of the return handler, under the lock and after it: the
\* ready paths leave pending_files; those not in processed_files are marked and
\* put on processor_queue
DestDebounceSweep ==
    /\ ldpc = "lock"
    /\ ldpc' = "sleep"
    /\ ldlag' = 0
    /\ LET IsReady(e) == DebounceReady(e.age, ldlag)
           NotReady(e) == ~DebounceReady(e.age, ldlag)
           IsNew(e) == e.path \notin dest_processed
           to_process == SelectSeq(SelectSeq(dest_pending, IsReady), IsNew)
           files_to_process == [i \in 1..Len(to_process) |-> to_process[i].path]
       IN  /\ dest_pending' = SelectSeq(dest_pending, NotReady)
           /\ dest_processed' =
                dest_processed \cup
                   {files_to_process[i] : i \in 1..Len(files_to_process)}
           /\ processor_queue' = processor_queue \o files_to_process
    /\ UNCHANGED <<retOthers, destFiles, lstate>>

\* the return folder is empty and its handler is about to be built
InitReturn ==
    /\ threshold = 1
    /\ MainIdle
    /\ ImgIdle
    /\ EscIdle
    /\ CleanIdle
    /\ RootIdle
    /\ directFiles = {}
    /\ stopCalls = [c \in Components |-> 0]
    /\ LocksIdle
    /\ recreated = {}
    /\ lstate = "new"
    /\ dest_processed = {}
    /\ dest_pending = <<>>
    /\ ldpc = "none"
    /\ ldlag = 0

NextReturn ==
    \/ \E e \in Entries : DestWrite(e)
    \/ LightroomDestinationHandlerInit
    \/ ReturnWatcherStart
    \/ \E e \in Entries : DestOnCreated(e)
    \/ \E e \in Entries : \E inside \in BOOLEAN : DestOnMoved(e, inside)
    \/ DestClockTick
    \/ DestDebounceRead
    \/ DestDebounceSweep

SpecReturn == InitReturn /\ [][NextReturn]_vars

\* ------------------------------------------------------ shutdown from main
\* FolderWatcher.stop, the whole call: the flag is cleared, every registered
\* observer is stopped and joined, the registry is emptied, the main observer is
\* stopped and joined, the threads are joined (main calls it from the signal
\* handler and from its finally block)
FolderWatcherStop ==
    /\ fstate \in {"watching", "stopped"}
    /\ stopCalls["folder"] < MaxStops
    /\ stopCalls' = [stopCalls EXCEPT !["folder"] = @ + 1]
    /\ running' = FALSE
    /\ observers' =
         [o \in ObserverIds |->
            IF InReg(o[1]) /\ RegEntry(o[1]).kind = o[2] THEN "stopped"
            ELSE observers[o]]
    /\ watched_folders' = <<>>
    /\ fstate' = "stopped"
    /\ UNCHANGED <<admVars, child_folder_found, processed_files, started,
                   diskVars, image_queue, thrVars, sinkVars, colVars, reapVars,
                   histVars, imgVars, escVars, cleanVars, retVars, directFiles,
                   lockVars, recreated, rootDisk, existing_folders,
                   processed_folders,
                   pending_folders, folder_queue, fdpc, fdlag, fppc, delayed>>

\* LightroomDestinationWatcher.stop, the whole call: the flag is cleared, the
\* observer is stopped and joined, the threads are joined
ReturnWatcherStop ==
    /\ lstate \in {"watching", "stopped"}
    /\ stopCalls["return"] < MaxStops
    /\ stopCalls' = [stopCalls EXCEPT !["return"] = @ + 1]
    /\ lstate' = "stopped"
    /\ UNCHANGED <<retOthers_but_calls, destFiles, processor_queue,
                   dest_processed, dest_pending, ldpc, ldlag>>

\* ImageCleanup.stop, the whole call: nothing happens unless self.running
\* (main installs the signal handler after it has started an enabled sweeper)
CleanupStopCall ==
    /\ enabled => wpc # "none"
    /\ stopCalls["cleanup"] < MaxStops
    /\ stopCalls' = [stopCalls EXCEPT !["cleanup"] = @ + 1]
    /\ IF crunning
       THEN /\ crunning' = FALSE
            /\ stop_event' = TRUE
       ELSE UNCHANGED <<crunning, stop_event>>
    /\ UNCHANGED <<mainVars, imgVars, escVars, rootVars, retVars, directFiles,
                   lockVars, recreated, onDisk, mtimeAge, enabled, folders, wpc,
                   items_to_delete,
                   sweeps, intervals, sweepDisk, sweepAge, doneLog, disturbed>>

\* the sessions pasted while the application runs
ShutdownSessions == {Session1, Session2}

\* main: the three components are built and not yet started
InitShutdown ==
    /\ threshold = 1
    /\ MainIdle
    /\ ImgIdle
    /\ EscIdle
    /\ directFiles = {}
    /\ stopCalls = [c \in Components |-> 0]
    /\ LocksIdle
    /\ recreated = {}
    /\ rootDisk = {}
    /\ fstate = "new"
    /\ existing_folders = {}
    /\ processed_folders = {}
    /\ pending_folders = <<>>
    /\ folder_queue = <<>>
    /\ fdpc = "none"
    /\ fdlag = 0
    /\ fppc = "none"
    /\ delayed = 0
    /\ lstate = "new"
    /\ dest_processed = {}
    /\ dest_pending = <<>>
    /\ ldpc = "none"
    /\ ldlag = 0
    /\ onDisk = {}
    /\ mtimeAge = [n \in Nodes |-> 0]
    /\ enabled \in BOOLEAN
    /\ folders \in {<<>>, <<"root">>}
    /\ crunning = FALSE
    /\ stop_event = FALSE
    /\ wpc = "none"
    /\ items_to_delete = <<>>
    /\ sweeps = 0
    /\ intervals = 0
    /\ sweepDisk = {}
    /\ sweepAge = [n \in Nodes |-> 0]
    /\ doneLog = <<>>
    /\ disturbed = {}

NextShutdown ==
    \/ FolderCreatedHandlerInit
    \/ RootObserverStart
    \/ LightroomDestinationHandlerInit
    \/ ReturnWatcherStart
    \/ CleanupStart
    \/ \E s \in ShutdownSessions : CreateFolder(s)
    \/ \E s \in ShutdownSessions : CreateChild(s)
    \/ \E s \in ShutdownSessions : StartWatchingFolder(s)
    \/ \E s \in ShutdownSessions : SubfolderFound(s)
    \/ FolderWatcherStop
    \/ ReturnWatcherStop
    \/ CleanupStopCall
    \/ \E t \in Drainers : LoopExit(t)
    \/ ReaperExit

SpecShutdown == InitShutdown /\ [][NextShutdown]_vars

\* ------------------------------------------------------------ claim C29
\* everything but the count of the calls
StateButCalls == <<mainVars, imgVars, escVars, cleanVars, rootVars, retVars,
                   directFiles, lockVars, recreated>>

\* C29 (as stated): a stop() on the folder watcher, the return watcher or the
\* retention sweeper that is not the first one on that component (the main
\* observer being stopped already) raises no error and changes nothing: the
\* state is still what the first stop() left.
C29_SecondStopChangesNothing ==
    [][\A c \in Components :
          (stopCalls'[c] = stopCalls[c] + 1 /\ stopCalls[c] >= 1)
             => UNCHANGED StateButCalls]_vars


\* ------------------------------------------------------------ claim C30
\* one of the three debounce handlers is followed: the image handler of a
\* session, the handler of the watch root or the handler of the return folder
InitHandlers == InitHandler \/ InitRoot \/ InitReturn

NextHandlers ==
    \/ NextWatch
    \/ NextRoot
    \/ NextReturn

SpecHandlers == InitHandlers /\ [][NextHandlers]_vars

\* C30: in each of the three debounce handlers no path is at once a key of the
\* pending map and a member of the processed set.
C30_PendingNotProcessed ==
    /\ PendingPaths \cap processed_files[Session1] = {}
    /\ PendingFolderPaths \cap processed_folders = {}
    /\ DestPendingPaths \cap dest_processed = {}

\* the root handler has queued a folder that appeared after it was built, and
\* another folder is pending
C30_Witness ==
    /\ pending_folders # <<>>
    /\ QueuedFolders # {}
    /\ processed_folders \ existing_folders # {}

\* ------------------------------------------------------------ claim C31
\* the pending entries that the sweep of the root handler now puts on the queue
RootEmitted ==
    {pending_folders[i] : i \in {j \in 1..Len(pending_folders) :
        /\ pending_folders[j].path \notin processed_folders
        /\ pending_folders[j].path \in processed_folders'}}

\* C31 (as stated, for the root handler): a folder is put on the folder queue no
\* earlier than one quiet period after the last event for it, the worker having
\* read the clock fdlag ticks ago.
C31_QuietSinceLastEvent ==
    [][\A e \in RootEmitted : e.quiet - fdlag >= DebounceTicks]_vars

\* ------------------------------------------------------------ claim C32
\* C32 (as stated): the age of a session that stays registered never goes back;
\* escalating it from the subfolder watch to the image watch does not restart
\* the clock the reaper compares with the timeout.
C32_ClockNeverRestarts ==
    [][\A s \in SessionNames :
          (InReg(s) /\ InReg(s)') => RegEntry(s)'.age >= RegEntry(s).age]_vars

\* ------------------------------------------------------------ claim C33
\* C33 (as stated): a session that the reaper has released (its folder was
\* registered and _stop_watching_folder ran to its end) has no counter and no
\* pending queue in the admission controller.
C33_NoEntryAfterRelease ==
    \A s \in SessionNames :
       TornDown(s) => (s \notin DOMAIN counters /\ s \notin DOMAIN pending_queues)

\* ------------------------------------------- the collector with failing moves
\* an error handler that records the return all the same
decrement_on_error(c, folder_name) == decrement(c, folder_name)
\* _process_file: except Exception as e: logger.error(...): the counters after
\* output_folder.mkdir or shutil.move raised
counters_after_error(c, folder_name) == c

\* _processing_worker / _process_file for a well-formed artifact whose output
\* folder cannot be created or whose move fails: the exception is logged, the
\* file stays where it is and the worker goes back to the queue
CollectorMoveFails ==
    /\ cpc = "idle"
    /\ processor_queue # <<>>
    /\ Head(processor_queue) \in destFiles
    /\ ProcessFileVerdict(Head(processor_queue)) = "move"
    /\ processor_queue' = Tail(processor_queue)
    /\ counters' =
         counters_after_error(counters, ProcessFileFolder(Head(processor_queue)))
    /\ UNCHANGED <<handlerVars, threshold, pending_queues, regVars, diskVars,
                   image_queue, thrVars, sinkFiles, destFiles, outputFiles,
                   colVars, reapVars, histVars>>

NextCollect ==
    \/ \E f \in MainImages : DropImage(Session1, f)
    \/ \E f \in MainImages : ImageEmit(Session1, f)
    \/ DrainerStep
    \/ \E n \in sinkFiles : LightroomReturns(n)
    \/ CollectorStep
    \/ CollectorMoveFails

SpecCollect == InitAdm /\ [][NextCollect]_vars

\* ------------------------------------------------------------ claim C34
\* the collector takes the next path from its queue
CollectorTakesNext ==
    /\ cpc = "idle"
    /\ processor_queue # <<>>
    /\ processor_queue' = Tail(processor_queue)

\* C34: a counter goes down only in the step of the collector that follows the
\* move of an artifact of that session to its output location; a step in which
\* the collector takes an artifact and does not move it (the move or the
\* creation of the output folder failed) leaves every counter as it was, and the
\* collector is ready for the next artifact.
C34_DecrementOnlyAfterMove ==
    [][/\ \A s \in DOMAIN counters :
             (s \in DOMAIN counters' /\ counters'[s] < counters[s]) =>
                /\ cpc = "dec"
                /\ cfolder = s
                /\ ProcessFileDestination(cfile) \in outputFiles
                /\ cfile \notin destFiles
       /\ (CollectorTakesNext /\ outputFiles' = outputFiles) =>
             (counters' = counters /\ cpc' = "idle")]_vars

\* a move failed: a well-formed artifact was taken from the queue and is still in
\* the return folder, and the counter of its session still counts it
C34_Witness ==
    /\ cpc = "idle"
    /\ \E n \in destFiles :
          /\ ProcessFileVerdict(n) = "move"
          /\ \A i \in 1..Len(processor_queue) : processor_queue[i] # n
          /\ get_count(counters, ProcessFileFolder(n)) > 0

\* ------------------------------------------------------------ claim C35
\* the artifacts of the session s in flight: handed to the sink and not yet
\* returned and relocated
ArtifactsInFlight(s) ==
    {n \in sinkFiles \cup destFiles :
        ProcessFileVerdict(n) = "move" /\ ProcessFileFolder(n) = s}

\* no dispatch is between its copy and its increment, no return between its
\* move and its decrement
NoStepMidway == cpc = "idle" /\ \A t \in Drainers : pc[t] # "inc"

\* C35 (as stated): whenever no dispatch or return step is mid-execution, the
\* counter of a session equals the number of its artifacts in flight.
C35_CounterMatchesInFlight ==
    \A s \in SessionNames :
       NoStepMidway => get_count(counters, s) = Cardinality(ArtifactsInFlight(s))

\* ------------------------ admission runs at threshold 1, fairly scheduled
\* the dispatch worker, the pending processor, the collector and the debounce
\* thread of the image handler keep looping, and the sink returns every file
\* it was handed
SinkFairness ==
    \A f \in AdmImages : WF_vars(LightroomReturns(NewName(Session1, f)))

\* one session with the threshold 1
InitDrain == InitWatching(1)

SpecDrain == InitDrain /\ [][NextAdm]_vars /\ ThreadFairness /\ SinkFairness

\* ------------------------------------------------------------ claim C36
\* the item it is the head of the pending queue of the registered session s,
\* whose counter is below the threshold
HeadAdmissible(s, it) ==
    /\ InReg(s)
    /\ has_pending(pending_queues, s)
    /\ Head(pending_queues[s]) = it
    /\ get_count(counters, s) < threshold

\* C36 (as stated): whenever a registered session has its counter below the threshold and a
\* non-empty pending queue, the head of that queue is eventually taken from it
\* and handed to _process_image, which hands it to the sink.
C36_PendingHeadDispatched ==
    \A f \in AdmImages :
       LET it == [name |-> Session1, img |-> f]
       IN  HeadAdmissible(Session1, it) ~> HandedOver(it)

\* --------------------------- the operations of ProcessingCounter, one by one
\* the session ids the operations are called with
CounterIds == {Session1, Session2}
CounterImages == {ImgA, ImgB}

CounterIncrement(a) ==
    /\ get_count(counters, a) <= MaxThreshold
    /\ counters' = increment(counters, a)
    /\ UNCHANGED <<threshold, pending_queues>>

CounterDecrement(a) ==
    /\ counters' = decrement(counters, a)
    /\ UNCHANGED <<threshold, pending_queues>>

CounterCanProcess(a) ==
    /\ counters' = can_process_counters(counters, a)
    /\ UNCHANGED <<threshold, pending_queues>>

CounterAddPending(a, f) ==
    /\ a \in DOMAIN pending_queues => Len(pending_queues[a]) < MaxThreshold
    /\ pending_queues' = add_pending(pending_queues, a, [name |-> a, img |-> f])
    /\ UNCHANGED <<threshold, counters>>

CounterGetPending(a) ==
    /\ pending_queues' = get_pending_queues(pending_queues, a)
    /\ UNCHANGED <<threshold, counters>>

CounterRemoveFolder(a) ==
    /\ counters' = remove_folder_counters(counters, a)
    /\ pending_queues' = remove_folder_queues(pending_queues, a)
    /\ UNCHANGED threshold

\* any one operation called with the session id a
CounterOp(a) ==
    \/ CounterIncrement(a)
    \/ CounterDecrement(a)
    \/ CounterCanProcess(a)
    \/ \E f \in CounterImages : CounterAddPending(a, f)
    \/ CounterGetPending(a)
    \/ CounterRemoveFolder(a)

CounterOthers == <<regVars, diskVars, image_queue, thrVars, sinkVars, colVars,
                   reapVars, histVars, handlerVars>>

NextCounter ==
    \/ \E a \in CounterIds : CounterIncrement(a) /\ UNCHANGED CounterOthers
    \/ \E a \in CounterIds : CounterDecrement(a) /\ UNCHANGED CounterOthers
    \/ \E a \in CounterIds : CounterCanProcess(a) /\ UNCHANGED CounterOthers
    \/ \E a \in CounterIds : \E f \in CounterImages :
          CounterAddPending(a, f) /\ UNCHANGED CounterOthers
    \/ \E a \in CounterIds : CounterGetPending(a) /\ UNCHANGED CounterOthers
    \/ \E a \in CounterIds : CounterRemoveFolder(a) /\ UNCHANGED CounterOthers

\* a ProcessingCounter as it is built (no entry), with each threshold
SpecCounter == InitAdm /\ [][NextCounter]_vars

\* ------------------------------------------------------------ claim C37
\* what the ProcessingCounter holds for the session id b: its counter and its
\* pending queue, each absent or present
CounterEntry(b) ==
    <<IF b \in DOMAIN counters THEN <<counters[b]>> ELSE <<>>,
      IF b \in DOMAIN pending_queues THEN <<pending_queues[b]>> ELSE <<>>>>

\* C37: every ProcessingCounter operation called with the session id a
\* (increment, decrement, can_process, add_pending, get_pending, remove_folder)
\* leaves the counter and the pending queue of every other session id b as
\* they were.
C37_OtherSessionsUntouched ==
    [][\A a \in CounterIds :
          CounterOp(a) =>
             \A b \in CounterIds \ {a} : CounterEntry(b)' = CounterEntry(b)]_vars

\* Session1 was given an entry and a pending item and had both taken away
\* again, while Session2 holds a counter at 2 and a pending item
C37_Witness ==
    /\ CounterEntry(Session1) = <<<<0>>, <<<<>>>>>>
    /\ get_count(counters, Session2) = 2
    /\ has_pending(pending_queues, Session2)

\* ----------------------- the threads of the folder watcher by their locks
\* The code of each thread is reduced to the steps that take or free a lock,
\* stop an observer or join a thread, in the order of the source:
\*   <<"acq", l>>     with l: (wait for and) take the lock l
\*   <<"rel", l>>     leave the with block of l
\*   <<"stop", t>>    observer.stop() on the observer whose thread is t
\*   <<"join_t", t>>  join(timeout=...) on t
\*   <<"join", t>>    join() on t
\*   <<"br", n>>      a test of data: go on, or skip the next n steps
\* _watch_child_folder_for_images, called with the handler lock held
LocksWatchChild ==
    << <<"br", 9>>,                \* the child is gone: return
       <<"acq", "watched">>,
       <<"br", 2>>,                \* the parent is not registered
       <<"stop", "callback">>,
       <<"join_t", "callback">>,
       <<"rel", "watched">>,
       <<"acq", "img">>,           \* ChildFolderImageHandler.__init__
       <<"rel", "img">>,
       <<"acq", "watched">>,
       <<"rel", "watched">> >>

\* ParentFolderSubfolderHandler.on_created and on_moved, on the thread of the
\* subfolder observer
LocksSubOnCreated ==
    << <<"acq", "sub">>, <<"rel", "sub">>, <<"br", 13>>,
       <<"acq", "sub">>, <<"br", 10>> >> \o LocksWatchChild \o << <<"rel", "sub">> >>

\* ParentFolderSubfolderHandler._periodic_check, one round of its loop
LocksSubPeriodicCheck ==
    << <<"acq", "sub">>, <<"rel", "sub">>, <<"br", 13>>,
       <<"acq", "sub">>, <<"br", 10>> >> \o LocksWatchChild \o << <<"rel", "sub">> >>

\* ChildFolderImageHandler._debounce_worker, one round
LocksImageDebounce == << <<"acq", "img">>, <<"rel", "img">> >>

\* FolderCreatedHandler.on_created, on the thread of the main observer
LocksRootOnCreated == << <<"acq", "root">>, <<"rel", "root">> >>

\* _image_processing_worker, one round: can_process, then increment in
\* _process_image or add_pending, then _process_pending_items
LocksImageWorker ==
    << <<"br", 4>>,
       <<"acq", "counter">>, <<"rel", "counter">>,
       <<"acq", "counter">>, <<"rel", "counter">>,
       <<"acq", "watched">>, <<"rel", "watched">>,
       <<"br", 2>>,
       <<"acq", "counter">>, <<"rel", "counter">> >>

\* _folder_management_worker, one round, with _stop_watching_folder
LocksReaper ==
    << <<"acq", "watched">>, <<"rel", "watched">>,
       <<"br", 6>>,
       <<"acq", "watched">>, <<"rel", "watched">>,
       <<"stop", "callback">>, <<"join_t", "callback">>,
       <<"acq", "counter">>, <<"rel", "counter">> >>

\* LightroomDestinationWatcher._process_file: decrement
LocksCollector == << <<"acq", "counter">>, <<"rel", "counter">> >>

\* a stop() whose join under the registry lock has no timeout
LocksStopUntimed ==
    << <<"acq", "watched">>,
       <<"stop", "callback">>, <<"join", "callback">>,
       <<"rel", "watched">>,
       <<"stop", "rootcb">>, <<"join", "rootcb">>,
       <<"join_t", "worker">>, <<"join_t", "reaper">> >>

\* FolderWatcher.stop
LocksStop ==
    << <<"acq", "watched">>,
       <<"stop", "callback">>, <<"join_t", "callback">>,
       <<"rel", "watched">>,
       <<"stop", "rootcb">>, <<"join", "rootcb">>,
       <<"join_t", "worker">>, <<"join_t", "reaper">> >>

LockProgram(t) ==
    CASE t = "callback" -> LocksSubOnCreated
      [] t = "periodic" -> LocksSubPeriodicCheck
      [] t = "imgdeb" -> LocksImageDebounce
      [] t = "rootcb" -> LocksRootOnCreated
      [] t = "worker" -> LocksImageWorker
      [] t = "reaper" -> LocksReaper
      [] t = "collector" -> LocksCollector
      [] t = "stop" -> LocksStop

\* the threads of observers: they leave their loop when stop() was called on
\* the observer; stop() itself runs once; the others loop
ObserverThreads == {"callback", "rootcb"}
RunsOnce(t) == t = "stop" \/ (t \in ObserverThreads /\ t \in lstopped)

LockStep(t) == LockProgram(t)[lpc[t]]

\* where t is after it has gone n steps on
LockGoto(t, n) ==
    IF lpc[t] + n <= Len(LockProgram(t)) THEN lpc[t] + n
    ELSE IF RunsOnce(t) THEN 0 ELSE 1

\* the locks t holds
LocksOf(t) == {l \in LockNames : lockHeld[l] = t}

LocksOthers == <<mainVars, imgVars, escVars, cleanVars, rootVars, retVars,
                 directFiles, stopCalls, recreated>>

LockAcquire(t) ==
    /\ lpc[t] > 0
    /\ LockStep(t)[1] = "acq"
    /\ lockHeld[LockStep(t)[2]] = "free"
    /\ lockHeld' = [lockHeld EXCEPT ![LockStep(t)[2]] = t]
    /\ lpc' = [lpc EXCEPT ![t] = LockGoto(t, 1)]
    /\ UNCHANGED <<lstopped, LocksOthers>>

LockRelease(t) ==
    /\ lpc[t] > 0
    /\ LockStep(t)[1] = "rel"
    /\ lockHeld' = [lockHeld EXCEPT ![LockStep(t)[2]] = "free"]
    /\ lpc' = [lpc EXCEPT ![t] = LockGoto(t, 1)]
    /\ UNCHANGED <<lstopped, LocksOthers>>

\* observer.stop(): the thread of the observer ends after the callback it is in
ObserverStop(t) ==
    /\ lpc[t] > 0
    /\ LockStep(t)[1] = "stop"
    /\ lstopped' = lstopped \cup {LockStep(t)[2]}
    /\ lpc' = [lpc EXCEPT ![t] = LockGoto(t, 1)]
    /\ UNCHANGED <<lockHeld, LocksOthers>>

\* join(timeout=...) returns: the thread has ended, or the time is up, or the
\* thread is the caller itself (RuntimeError, caught by the caller)
JoinTimed(t) ==
    /\ lpc[t] > 0
    /\ LockStep(t)[1] = "join_t"
    /\ lpc' = [lpc EXCEPT ![t] = LockGoto(t, 1)]
    /\ UNCHANGED <<lockHeld, lstopped, LocksOthers>>

\* join() returns when the thread has ended
JoinUntimed(t) ==
    /\ lpc[t] > 0
    /\ LockStep(t)[1] = "join"
    /\ lpc[LockStep(t)[2]] = 0
    /\ lpc' = [lpc EXCEPT ![t] = LockGoto(t, 1)]
    /\ UNCHANGED <<lockHeld, lstopped, LocksOthers>>

LockBranch(t) ==
    /\ lpc[t] > 0
    /\ LockStep(t)[1] = "br"
    /\ \E n \in {1, 1 + LockStep(t)[2]} :
          lpc' = [lpc EXCEPT ![t] = LockGoto(t, n)]
    /\ UNCHANGED <<lockHeld, lstopped, LocksOthers>>

\* the thread of a stopped observer ends between two callbacks
ObserverThreadEnds(t) ==
    /\ lpc[t] = 1
    /\ t \in ObserverThreads
    /\ t \in lstopped
    /\ lpc' = [lpc EXCEPT ![t] = 0]
    /\ UNCHANGED <<lockHeld, lstopped, LocksOthers>>

\* every thread is at the start of its code, no lock is held
InitLocks ==
    /\ threshold = 1
    /\ MainIdle
    /\ ImgIdle
    /\ EscIdle
    /\ CleanIdle
    /\ RootIdle
    /\ RetIdle
    /\ directFiles = {}
    /\ stopCalls = [c \in Components |-> 0]
    /\ lockHeld = [l \in LockNames |-> "free"]
    /\ lpc = [t \in LockThreads |-> 1]
    /\ lstopped = {}
    /\ recreated = {}

NextLocks ==
    \/ \E t \in LockThreads : LockAcquire(t)
    \/ \E t \in LockThreads : LockRelease(t)
    \/ \E t \in LockThreads : ObserverStop(t)
    \/ \E t \in LockThreads : JoinTimed(t)
    \/ \E t \in LockThreads : JoinUntimed(t)
    \/ \E t \in LockThreads : LockBranch(t)
    \/ \E t \in LockThreads : ObserverThreadEnds(t)

SpecLocks == InitLocks /\ [][NextLocks]_vars

\* ------------------------------------------------------------ claim C38
\* the lock t waits for, or the thread whose end it waits for
WaitsFor(t) ==
    IF lpc[t] = 0 THEN "free"
    ELSE IF LockStep(t)[1] = "acq" THEN lockHeld[LockStep(t)[2]]
    ELSE IF LockStep(t)[1] = "join" /\ lpc[LockStep(t)[2]] # 0 THEN LockStep(t)[2]
    ELSE "free"

RECURSIVE WaitChain(_, _)
\* t waits for a thread that waits for a thread ..., n times over
WaitChain(t, n) ==
    IF WaitsFor(t) = "free" THEN FALSE
    ELSE IF n = 0 THEN TRUE
    ELSE WaitChain(WaitsFor(t), n - 1)

\* t is one of a ring of threads that wait for each other, or waits for one
WaitsForEver(t) == WaitChain(t, Cardinality(LockThreads))

\* the order in which two locks are held together
LockOrder == {<<"sub", "watched">>, <<"sub", "img">>}

\* C38: a thread that holds one lock takes a second one only in the one order
\* (handler lock, then registry lock or the lock of the new image handler; the
\* counter lock alone), and at no time do threads wait for each other in a
\* ring, whatever the interleaving of callbacks, workers, reaper and stop().
C38_NoThreadsWaitForEver ==
    /\ \A t \in LockThreads :
          (lpc[t] > 0 /\ LockStep(t)[1] = "acq")
             => \A l \in LocksOf(t) : <<l, LockStep(t)[2]>> \in LockOrder
    /\ \A t \in LockThreads : ~WaitsForEver(t)

\* stop() holds the registry lock and is in its join on the subfolder observer,
\* whose thread holds the handler lock and waits for the registry lock
C38_Witness ==
    /\ lpc["stop"] > 0
    /\ LockStep("stop") = <<"join_t", "callback">>
    /\ lockHeld["watched"] = "stop"
    /\ lockHeld["sub"] = "callback"
    /\ LockStep("callback") = <<"acq", "watched">>

\* ------------------- the watch root with folders that come back after removal
\* a folder appears in the watch root under a name that is on the folder queue
\* and was deleted since
RootCreateAgain(e) ==
    /\ fstate \in {"built", "watching", "stopped"}
    /\ e \in RootFolders
    /\ e \notin rootDisk
    /\ Occurrences(folder_queue, e) > 0
    /\ rootDisk' = rootDisk \cup {e}
    /\ recreated' = recreated \cup {e}
    /\ UNCHANGED <<mainVars, imgVars, escVars, cleanVars, retVars, directFiles,
                   stopCalls, lockVars, fstate, existing_folders,
                   processed_folders, pending_folders, folder_queue, fdpc, fdlag,
                   fppc, delayed>>

NextRecreate ==
    \/ NextRoot
    \/ \E e \in RootFolders : RootCreateAgain(e)

SpecRecreate == InitRoot /\ [][NextRecreate]_vars

\* ------------------------------------------------------------ claim C39
\* C39: the processed set of the root handler only grows, and a child folder
\* path of the watch root is put on the folder queue at most once: once it is
\* there, no step puts it there again, also not after the folder was deleted
\* and created again under the same name.
C39_QueuedAtMostOnceEver ==
    [][/\ processed_folders \subseteq processed_folders'
       /\ \A d \in RootFolders :
             /\ Occurrences(folder_queue', d) <= 1
             /\ Occurrences(folder_queue, d) = 1 =>
                   (d \in processed_folders /\ Occurrences(folder_queue', d) = 1)]_vars

\* Session2 was queued, deleted and created again, and the debounce worker is
\* about to sweep: Session2 is on the queue once and is not pending
C39_Witness ==
    /\ Session2 \in recreated
    /\ Session2 \in rootDisk
    /\ folder_queue = <<Session2>>
    /\ pending_folders = <<>>
    /\ fdpc = "lock"

\* --------------------- a subfolder watch whose child directories may vanish
\* the directories in the session folder of Session1 are deleted or moved away
\* (events of deletion are not handled by the subfolder handler)
ChildVanishes ==
    /\ estage # "none"
    /\ children # <<>>
    /\ Len(evq) + Len(delivered) < MaxEvents
    /\ children' = <<>>
    /\ childOnDisk' = childOnDisk \ {Session1}
    /\ UNCHANGED <<admVars, regVars, folderOnDisk, inputFiles, image_queue,
                   thrVars, sinkVars, colVars, reapVars, histVars, imgVars,
                   cleanVars, newVars, evq, estage, epc, ecur, ppc, checks, pfirst,
                   escalations, delivered>>

NextVanish ==
    \/ NextEscalate
    \/ ChildVanishes

SpecVanish == InitEscalate /\ [][NextVanish]_vars

\* ------------------------------------------------------------ claim C40
\* C40 (as stated): once a subfolder handler has set child_folder_found and the
\* escalation call has returned, the registry entry of the parent path holds a
\* started image observer: the flag is never set with no image watch.
C40_FlagMeansImageWatch ==
    child_folder_found[Session1] = "yes" =>
       /\ InReg(Session1)
       /\ RegEntry(Session1).kind = "img"
       /\ observers[<<Session1, "img">>] = "started"
====
